---- MODULE Spec2Model ----
(***************************************************************************)
(* Verification model of waddle: timeline algebra (merge_timelines,        *)
(* adjust_pos_to_timeline), remapped reassembly in preprocess_multi_files   *)
(* and the sample shift of the offset aligner (shift_audio).                *)
(***************************************************************************)
EXTENDS Integers, Sequences, FiniteSets, TLC

\* ------------------------------------------------------------------ bounds
MaxTime == 3
MaxTracks == 2
MaxSegs == 2
PoolSize == 2
MaxLen == 3
MaxRef == 4
MaxSample == 2
MaxDuration == 6
MaxChunk == 3
MaxBuffer == 2
MaxBlocks == 2
MaxMixTracks == 3
MaxMixLen == 2

VARIABLES
    timelines,       \* argument of merge_timelines: list of SpeechTimeline
    stage,           \* which operation of the timeline algebra has been applied
    merged,          \* merge_timelines(timelines)
    remerged,        \* merge_timelines([merged])
    permMerged,      \* merge_timelines(a permutation of timelines)
    pos,             \* position argument of adjust_pos_to_timeline
    adjusted,        \* adjust_pos_to_timeline(merged, pos)
    \* preprocess_multi_files
    trackTimeline,   \* per speaker file: the timeline its detection yields
    pcMain,          \* position of the main thread in preprocess_multi_files
    task,            \* per speaker file: state of its process_file future
    taskResult,      \* per speaker file: (segments_dir, timeline) of a finished future
    overtaken,       \* history: some task finished before an earlier speaker file's task
    segFiles,        \* per segments directory: the segment files it holds
    results,         \* results gathered so far by list(executor.map(...))
    pre_timelines,   \* local list `timelines`
    segments_dir_list,
    mergeCalls,      \* number of calls of merge_timelines made by the batch
    merged_timeline,
    save,            \* per speaker file: state of its save_audio_with_timeline future
    output,          \* per speaker file: the audio written to output_dir
    \* shift_audio
    spk_audio, offset, ref_length, shifted, shiftDone,
    \* find_offset_via_cross_correlation followed by shift_audio
    ref_audio,       \* the reference window
    delay,           \* number of zero samples in front of the candidate
    alignPc,         \* position in align_speaker_to_reference
    \* SegmentsProcessor.from_audio / process
    loud,            \* per chunk: chunk.dBFS > threshold_db
    duration,        \* len(audio) in ms
    chunk_size_ms,
    buffer_size_ms,
    scan_i,          \* loop variable i of _detect_raw_timeline
    current_timeline,\* the open interval, <<>> for None
    raw_timeline,    \* the list `timeline` of _detect_raw_timeline
    seg_timeline,    \* the list `timeline` of from_audio
    detPc,           \* position in from_audio / process
    is_transcribe,
    segs_dir,        \* the segment directory: does it exist, which segments it holds
    calls,           \* how often gain calculation, export and transcription ran
    \* the two reassembly functions called on one segment directory
    cmb_files,       \* the segment files of the directory, as (start, end)
    cmb_timeline,    \* the timeline argument
    cmb_dir_exists,  \* does the segment directory exist
    cmb_out,         \* the audio at combined_audio_path
    cmbPc,           \* "call", then how the call ended
    \* format_audio_filename / parse_audio_filename
    name_dir,        \* the directory the segment file is exported to
    name_start, name_end,
    seg_path,        \* output_folder / format_audio_filename("seg", start, end)
    parsed,          \* what parse_audio_filename(str(seg_path)) returns or raises
    namePc,
    \* subtitle files: parse_srt, combine_srt_files, _adjust_srt_timestamps
    srt_blocks,      \* the blocks the subtitle files were written from
    srt_dir,         \* per file name of the directory: the file
    srt_out,         \* the file at output_file
    srt_call,        \* the call made: "combine", "parse" or "adjust"
    srt_arg,         \* the file passed to parse_srt / _adjust_srt_timestamps, or output_file
    srt_offset,      \* start_offset of _adjust_srt_timestamps
    srt_result,      \* what the call returned or raised
    \* combine_audio_files
    mix_tracks,      \* the finished tracks, in the order of aligned_audio_paths
    mix_out,         \* the audio at output_audio_path
    mixPc,
    \* the entry checks of preprocess_multi_files, process_multi_files, from_audio
    in_call,         \* the function called
    src_exists,      \* does the source directory exist
    ref_state,       \* reference_path: None with or without a GMT file in the
                     \* directory ("gmt", "no_gmt"), or a path "present" or "missing"
    n_tracks,        \* number of speaker .wav files in the source directory
    audio_exists,    \* does audio_path of from_audio exist
    out_dir,         \* the output directory: "absent", "old" or "fresh"
    workspace,       \* the workspace directory: "absent", "old" or "fresh"
    aligned,         \* number of tracks aligned or scanned so far
    inPc,
    in_error,        \* the exception that left the call, "none" if none
    \* the wrappers of the external tools
    tool_call,       \* "ensure_sampling_rate", "deep_filtering" or "transcribe"
    input_exists,    \* does input_path exist
    ffmpeg,          \* how an ffmpeg run ends: "ok", "nonzero" or "missing"
    tool_bin,        \* how a deep-filter / whisper-cli run ends
    model_exists,    \* does the whisper model exist after the install step
    leaves_output,   \* does a failing ffmpeg run leave an output file behind
    tmp_exists,      \* does the wrapper's temporary audio file exist
    out_written,     \* was the wrapper's output produced
    toolPc,
    tool_error       \* the exception that left the call, "none" if none

algVars == <<timelines, stage, merged, remerged, permMerged, pos, adjusted>>

preVars == <<trackTimeline, pcMain, task, taskResult, overtaken, segFiles, results,
             pre_timelines, segments_dir_list, mergeCalls, merged_timeline,
             save, output>>

shiftVars == <<spk_audio, offset, ref_length, shifted, shiftDone>>

alignVars == <<ref_audio, delay, alignPc>>

\* the variables of the specifications added after the first three
detVars == <<loud, duration, chunk_size_ms, buffer_size_ms, scan_i,
             current_timeline, raw_timeline, seg_timeline, detPc, is_transcribe,
             segs_dir, calls>>

cmbVars == <<cmb_files, cmb_timeline, cmb_dir_exists, cmb_out, cmbPc>>

nameVars == <<name_dir, name_start, name_end, seg_path, parsed, namePc>>

srtVars == <<srt_blocks, srt_dir, srt_out, srt_call, srt_arg, srt_offset, srt_result>>

mixVars == <<mix_tracks, mix_out, mixPc>>

inVars == <<in_call, src_exists, ref_state, n_tracks, audio_exists, out_dir,
            workspace, aligned, inPc, in_error>>

toolVars == <<tool_call, input_exists, ffmpeg, tool_bin, model_exists,
              leaves_output, tmp_exists, out_written, toolPc, tool_error>>

secondVars == <<alignVars, detVars, cmbVars, nameVars, srtVars>>

thirdVars == <<mixVars, inVars, toolVars>>

extVars == <<secondVars, thirdVars>>

\* per added specification: the added variables it leaves alone
alignRest == <<detVars, cmbVars, nameVars, srtVars, thirdVars>>
detRest == <<alignVars, cmbVars, nameVars, srtVars, thirdVars>>
cmbRest == <<alignVars, detVars, nameVars, srtVars, thirdVars>>
nameRest == <<alignVars, detVars, cmbVars, srtVars, thirdVars>>
srtRest == <<alignVars, detVars, cmbVars, nameVars, thirdVars>>
mixRest == <<inVars, toolVars>>
inRest == <<mixVars, toolVars>>
toolRest == <<mixVars, inVars>>

vars == <<algVars, preVars, shiftVars, extVars>>

\* ------------------------------------------------------------ helpers
Max(a, b) == IF a >= b THEN a ELSE b
Min(a, b) == IF a <= b THEN a ELSE b
Range(seq) == {seq[i] : i \in 1..Len(seq)}
Last(seq) == seq[Len(seq)]
Front(seq) == SubSeq(seq, 1, Len(seq) - 1)
SeqsUpTo(S, n) == UNION {[1..k -> S] : k \in 0..n}

\* SpeechSegment: tuple[int, int] with start < end
Intervals == {iv \in (0..MaxTime) \X (0..MaxTime) : iv[1] < iv[2]}

\* ---------------------------------------------------- merge_timelines
\* all_segments.extend(timeline) for timeline in timelines
RECURSIVE Flatten(_)
Flatten(tls) ==
    IF tls = <<>> THEN <<>> ELSE Head(tls) \o Flatten(Tail(tls))

\* list(set(all_segments)): the set's iteration order is not specified by
\* the language, so every enumeration of the set is a possible list.
RECURSIVE SetOrders(_)
SetOrders(S) ==
    IF S = {} THEN {<<>>}
    ELSE UNION {{<<x>> \o o : o \in SetOrders(S \ {x})} : x \in S}

\* one step of the stable sort: x goes after every element whose key is <= x's
RECURSIVE InsertByStart(_, _)
InsertByStart(sorted, x) ==
    IF sorted = <<>> THEN <<x>>
    ELSE IF Last(sorted)[1] <= x[1] THEN Append(sorted, x)
    ELSE Append(InsertByStart(Front(sorted), x), Last(sorted))

SortByStartNone(seq) == seq

\* all_segments.sort(key=lambda x: x[0])   (list.sort is stable)
RECURSIVE SortByStart(_)
SortByStart(seq) ==
    IF seq = <<>> THEN <<>>
    ELSE InsertByStart(SortByStart(Front(seq)), Last(seq))

RECURSIVE MergeLoopTouch(_, _)
MergeLoopTouch(acc, rest) ==
    IF rest = <<>> THEN acc
    ELSE LET seg == Head(rest) IN
         IF acc = <<>> \/ Last(acc)[2] <= seg[1]
         THEN MergeLoopTouch(Append(acc, seg), Tail(rest))
         ELSE MergeLoopTouch(Append(Front(acc), <<Last(acc)[1], Max(Last(acc)[2], seg[2])>>), Tail(rest))

RECURSIVE MergeLoopDrop(_, _)
MergeLoopDrop(acc, rest) ==
    IF rest = <<>> THEN acc
    ELSE LET seg == Head(rest) IN
         IF acc = <<>> \/ Last(acc)[2] < seg[1]
         THEN MergeLoopDrop(Append(acc, seg), Tail(rest))
         ELSE MergeLoopDrop(acc, Tail(rest))

RECURSIVE MergeLoopNoMax(_, _)
MergeLoopNoMax(acc, rest) ==
    IF rest = <<>> THEN acc
    ELSE LET seg == Head(rest) IN
         IF acc = <<>> \/ Last(acc)[2] < seg[1]
         THEN MergeLoopNoMax(Append(acc, seg), Tail(rest))
         ELSE MergeLoopNoMax(Append(Front(acc), <<Last(acc)[1], seg[2]>>), Tail(rest))

\* for seg in all_segments: append, or extend merged[-1] to the max end
RECURSIVE MergeLoop(_, _)
MergeLoop(acc, rest) ==
    IF rest = <<>> THEN acc
    ELSE LET seg == Head(rest) IN
         IF acc = <<>> \/ Last(acc)[2] < seg[1]
         THEN MergeLoop(Append(acc, seg), Tail(rest))
         ELSE MergeLoop(Append(Front(acc), <<Last(acc)[1], Max(Last(acc)[2], seg[2])>>), Tail(rest))

\* merge_timelines: the set of lists the call can return, one for each
\* order in which set(all_segments) can be listed
merge_timelines(tls) ==
    {MergeLoop(<<>>, SortByStart(order)) : order \in SetOrders(Range(Flatten(tls)))}

\* ------------------------------------------- adjust_pos_to_timeline
RECURSIVE AdjustLoopStrictBreak(_, _, _)
AdjustLoopStrictBreak(timeline, p, running_total) ==
    IF timeline = <<>> THEN running_total
    ELSE LET start == Head(timeline)[1]
             end == Head(timeline)[2]
         IN IF p < start THEN running_total
            ELSE IF start < p /\ p <= end THEN running_total + (p - start)
            ELSE AdjustLoopStrictBreak(Tail(timeline), p, running_total + (end - start))

RECURSIVE AdjustLoopBreakZero(_, _, _)
AdjustLoopBreakZero(timeline, p, running_total) ==
    IF timeline = <<>> THEN running_total
    ELSE LET start == Head(timeline)[1]
             end == Head(timeline)[2]
         IN IF p <= start THEN 0
            ELSE IF start < p /\ p <= end THEN running_total + (p - start)
            ELSE AdjustLoopBreakZero(Tail(timeline), p, running_total + (end - start))

\* the loop over the timeline's (start, end) pairs with its running total
RECURSIVE AdjustLoop(_, _, _)
AdjustLoop(timeline, p, running_total) ==
    IF timeline = <<>> THEN running_total
    ELSE LET start == Head(timeline)[1]
             end == Head(timeline)[2]
         IN IF p <= start THEN running_total
            ELSE IF start < p /\ p <= end THEN running_total + (p - start)
            ELSE AdjustLoop(Tail(timeline), p, running_total + (end - start))

adjust_pos_to_timeline(timeline, p) == AdjustLoop(timeline, p, 0)

\* ------------------------------------------------ timeline algebra: inputs
\* cut points that split a flat list of segments into n tracks
Cuts(n, len) ==
    {c \in [1..(n - 1) -> 0..len] : \A i \in 1..(n - 2) : c[i] <= c[i + 1]}

Split(flat, cuts, n) ==
    [j \in 1..n |->
        SubSeq(flat,
               (IF j = 1 THEN 0 ELSE cuts[j - 1]) + 1,
               IF j = n THEN Len(flat) ELSE cuts[j])]

\* every list of n tracks holding at most MaxSegs segments in all
BoundedInputs(n) ==
    UNION {{Split(flat, cuts, n) : cuts \in Cuts(n, Len(flat))}
           : flat \in SeqsUpTo(Intervals, IF n = 0 THEN 0 ELSE MaxSegs)}

\* the inputs of the repository's unit tests
TestInputs ==
    { << <<<<0, 200>>, <<300, 500>>>> >>,
      << <<<<100, 300>>, <<400, 500>>>> >>,
      << <<<<0, 100>>>>, <<<<200, 300>>>> >>,
      << <<<<0, 100>>>>, <<<<100, 200>>>>, <<<<200, 300>>>> >>,
      << <<<<0, 100>>>>, <<<<200, 300>>>>, <<<<400, 500>>>> >>,
      << <<<<200, 400>>>>, <<<<0, 300>>>> >> }

TestPositions == {0, 99, 100, 199, 200, 250, 299, 300, 350, 400, 450, 500, 501}

\* the end of the last interval of a list of segments (0 when empty)
RECURSIVE LastEnd(_)
LastEnd(tl) == IF tl = <<>> THEN 0 ELSE Max(Head(tl)[2], LastEnd(Tail(tl)))

\* positions up to one past the end of the timeline
Positions(tl) == {p \in (0..(MaxTime + 1)) \cup TestPositions : p <= LastEnd(tl) + 1}

\* ---------------------------------------------- timeline algebra: actions
AlgIdle ==
    /\ timelines = <<>>
    /\ stage = "idle"
    /\ merged = <<>>
    /\ remerged = <<>>
    /\ permMerged = <<>>
    /\ pos = 0
    /\ adjusted = 0

PreIdle ==
    /\ trackTimeline = <<>>
    /\ pcMain = "idle"
    /\ task = <<>>
    /\ taskResult = <<>>
    /\ overtaken = FALSE
    /\ segFiles = <<>>
    /\ results = <<>>
    /\ pre_timelines = <<>>
    /\ segments_dir_list = <<>>
    /\ mergeCalls = 0
    /\ merged_timeline = <<>>
    /\ save = <<>>
    /\ output = <<>>

ShiftIdle ==
    /\ spk_audio = <<>>
    /\ offset = 0
    /\ ref_length = 0
    /\ shifted = <<>>
    /\ shiftDone = FALSE

AlignIdle ==
    /\ ref_audio = <<>>
    /\ delay = 0
    /\ alignPc = "idle"

DetIdle ==
    /\ loud = <<>>
    /\ duration = 0
    /\ chunk_size_ms = 1
    /\ buffer_size_ms = 0
    /\ scan_i = 0
    /\ current_timeline = <<>>
    /\ raw_timeline = <<>>
    /\ seg_timeline = <<>>
    /\ detPc = "idle"
    /\ is_transcribe = FALSE
    /\ segs_dir = [exists |-> FALSE, files |-> {}]
    /\ calls = [gain |-> 0, export |-> 0, transcribe |-> 0]

CmbIdle ==
    /\ cmb_files = <<>>
    /\ cmb_timeline = <<>>
    /\ cmb_dir_exists = FALSE
    /\ cmb_out = <<>>
    /\ cmbPc = "idle"

NameIdle ==
    /\ name_dir = <<>>
    /\ name_start = 0
    /\ name_end = 0
    /\ seg_path = <<>>
    /\ parsed = [kind |-> "none", start |-> 0, end |-> 0]
    /\ namePc = "idle"

SrtIdle ==
    /\ srt_blocks = <<>>
    /\ srt_dir = <<>>
    /\ srt_out = [exists |-> FALSE, content |-> <<>>]
    /\ srt_call = "idle"
    /\ srt_arg = <<>>
    /\ srt_offset = 0
    /\ srt_result = [kind |-> "none", value |-> <<>>]

MixIdle ==
    /\ mix_tracks = <<>>
    /\ mix_out = <<>>
    /\ mixPc = "idle"

InIdle ==
    /\ in_call = "none"
    /\ src_exists = FALSE
    /\ ref_state = "gmt"
    /\ n_tracks = 0
    /\ audio_exists = FALSE
    /\ out_dir = "absent"
    /\ workspace = "absent"
    /\ aligned = 0
    /\ inPc = "idle"
    /\ in_error = "none"

ToolIdle ==
    /\ tool_call = "none"
    /\ input_exists = FALSE
    /\ ffmpeg = "ok"
    /\ tool_bin = "ok"
    /\ model_exists = FALSE
    /\ leaves_output = FALSE
    /\ tmp_exists = FALSE
    /\ out_written = FALSE
    /\ toolPc = "idle"
    /\ tool_error = "none"

ThirdIdle ==
    /\ MixIdle
    /\ InIdle
    /\ ToolIdle

SecondIdle ==
    /\ AlignIdle
    /\ DetIdle
    /\ CmbIdle
    /\ NameIdle
    /\ SrtIdle

ExtIdle ==
    /\ SecondIdle
    /\ ThirdIdle

AlignRestIdle ==
    /\ DetIdle
    /\ CmbIdle
    /\ NameIdle
    /\ SrtIdle
    /\ ThirdIdle

DetRestIdle ==
    /\ AlignIdle
    /\ CmbIdle
    /\ NameIdle
    /\ SrtIdle
    /\ ThirdIdle

CmbRestIdle ==
    /\ AlignIdle
    /\ DetIdle
    /\ NameIdle
    /\ SrtIdle
    /\ ThirdIdle

NameRestIdle ==
    /\ AlignIdle
    /\ DetIdle
    /\ CmbIdle
    /\ SrtIdle
    /\ ThirdIdle

SrtRestIdle ==
    /\ AlignIdle
    /\ DetIdle
    /\ CmbIdle
    /\ NameIdle
    /\ ThirdIdle

Init ==
    /\ \E n \in 0..MaxTracks : timelines \in BoundedInputs(n) \cup TestInputs
    /\ stage = "input"
    /\ merged = <<>>
    /\ remerged = <<>>
    /\ permMerged = <<>>
    /\ pos = 0
    /\ adjusted = 0
    /\ PreIdle
    /\ ShiftIdle
    /\ ExtIdle

\* merged = merge_timelines(timelines)
MergeTimelines ==
    /\ stage = "input"
    /\ merged' \in merge_timelines(timelines)
    /\ stage' = "merged"
    /\ UNCHANGED <<timelines, remerged, permMerged, pos, adjusted>>
    /\ UNCHANGED <<preVars, shiftVars, extVars>>

\* merge_timelines([merge_timelines(X)])
Remerge ==
    /\ stage = "merged"
    /\ remerged' \in merge_timelines(<<merged>>)
    /\ stage' = "remerged"
    /\ UNCHANGED <<timelines, merged, permMerged, pos, adjusted>>
    /\ UNCHANGED <<preVars, shiftVars, extVars>>

\* merge_timelines(P) for a permutation P of the tracks
MergePermuted ==
    /\ stage = "merged"
    /\ \E p \in Permutations(1..Len(timelines)) :
          permMerged' \in merge_timelines([i \in 1..Len(timelines) |-> timelines[p[i]]])
    /\ stage' = "permuted"
    /\ UNCHANGED <<timelines, merged, remerged, pos, adjusted>>
    /\ UNCHANGED <<preVars, shiftVars, extVars>>

\* adjust_pos_to_timeline(merged, p)
AdjustPos ==
    /\ stage = "merged"
    /\ \E p \in Positions(merged) :
          /\ pos' = p
          /\ adjusted' = adjust_pos_to_timeline(merged, p)
    /\ stage' = "adjusted"
    /\ UNCHANGED <<timelines, merged, remerged, permMerged>>
    /\ UNCHANGED <<preVars, shiftVars, extVars>>

Next == MergeTimelines \/ Remerge \/ MergePermuted \/ AdjustPos

Spec == Init /\ [][Next]_vars

\* ------------------------------------------------------------ properties
AllInputSegments == Range(Flatten(timelines))

\* the Timeline invariant: ascending, start < end, a real gap between neighbours
TimelineInvariant(tl) ==
    /\ \A i \in 1..Len(tl) : tl[i][1] < tl[i][2]
    /\ \A i \in 1..(Len(tl) - 1) : tl[i][2] < tl[i + 1][1]

Covers(segs, t) == \E iv \in segs : iv[1] <= t /\ t < iv[2]

Horizon == 1 + LastEnd(Flatten(timelines) \o merged)

\* C1: merge_timelines returns a list sorted by strictly ascending start in
\* which every interval has start < end and consecutive intervals are
\* separated by a real gap (previous.end < next.start).
C1_MergedIsTimeline ==
    stage # "input" =>
        /\ TimelineInvariant(merged)
        /\ \A i \in 1..(Len(merged) - 1) : merged[i][1] < merged[i + 1][1]

C1_Witness ==
    /\ stage = "merged"
    /\ Len(merged) >= 2
    /\ Flatten(timelines) # merged

\* C2: merge_timelines computes exactly the union of its inputs: an integer
\* millisecond t lies in an interval [s, e) of the result iff it lies in an
\* interval [s, e) of some input timeline.
C2_MergedIsUnion ==
    stage # "input" =>
        \A t \in 0..Horizon : Covers(Range(merged), t) <=> Covers(AllInputSegments, t)

C2_Witness ==
    /\ stage = "merged"
    /\ Len(timelines) >= 2
    /\ \E a \in Range(timelines[1]), b \in Range(timelines[2]) :
          a[1] < b[1] /\ b[2] < a[2]

\* C3: merge_timelines is idempotent: merge_timelines([merge_timelines(X)])
\* equals merge_timelines(X).
C3_Idempotent == stage = "remerged" => remerged = merged

C3_Witness ==
    /\ stage = "remerged"
    /\ Len(merged) >= 1
    /\ Cardinality(AllInputSegments) > Len(merged)

\* C4: merge_timelines is invariant to the order of its input tracks, also
\* when several intervals share the same start.
C4_OrderInvariant == stage = "permuted" => permMerged = merged

C4_Witness ==
    /\ stage = "permuted"
    /\ Len(timelines) >= 2
    /\ timelines[1] # timelines[2]
    /\ \E a \in Range(timelines[1]), b \in Range(timelines[2]) :
          a[1] = b[1] /\ a[2] # b[2]

\* the retained duration lying before position p
RECURSIVE RetainedBefore(_, _)
RetainedBefore(tl, p) ==
    IF tl = <<>> THEN 0
    ELSE Max(0, Min(Head(tl)[2], p) - Head(tl)[1]) + RetainedBefore(Tail(tl), p)

TestTimelineA == <<<<0, 200>>, <<300, 500>>>>
TestTimelineB == <<<<100, 300>>, <<400, 500>>>>

\* C5: for a timeline satisfying the Timeline invariant and pos >= 0,
\* adjust_pos_to_timeline(timeline, pos) is the total retained duration
\* before pos, the sum over intervals [s, e) of max(0, min(e, pos) - s);
\* in particular the values listed for [(0,200),(300,500)] and
\* [(100,300),(400,500)].
C5_AdjustIsRetainedBefore ==
    stage = "adjusted" =>
        /\ adjusted = RetainedBefore(merged, pos)
        /\ merged = TestTimelineA =>
              adjusted = CASE pos = 0 -> 0 [] pos = 100 -> 100 [] pos = 199 -> 199
                           [] pos = 200 -> 200 [] pos = 250 -> 200 [] pos = 300 -> 200
                           [] pos = 350 -> 250 [] pos = 500 -> 400 [] OTHER -> adjusted
        /\ merged = TestTimelineB =>
              adjusted = CASE pos = 0 -> 0 [] pos = 99 -> 0 [] pos = 100 -> 0
                           [] pos = 299 -> 199 [] pos = 300 -> 200 [] pos = 350 -> 200
                           [] pos = 400 -> 200 [] pos = 450 -> 250 [] pos = 500 -> 300
                           [] pos = 501 -> 300 [] OTHER -> adjusted

C5_Witness ==
    /\ stage = "adjusted"
    /\ merged = TestTimelineB
    /\ pos = 450
    /\ adjusted = 250

\* C6: adjust_pos_to_timeline is monotonically non-decreasing in its
\* position argument.
C6_AdjustMonotone ==
    stage = "adjusted" =>
        \A q \in Positions(merged) :
            pos <= q => adjusted <= adjust_pos_to_timeline(merged, q)

C6_Witness ==
    /\ stage = "adjusted"
    /\ Len(merged) >= 2
    /\ pos > merged[1][2]
    /\ pos < merged[2][1]

\* ------------------------------------------------ preprocess_multi_files
\* AudioSegment.silent(duration=10): the placeholder written for a track
\* without segment files
PlaceholderMs == 10

\* no file at the output path (every exported audio has at least one cell)
NoFile == <<>>
NoResult == "none"

Tracks == 1..Len(trackTimeline)

\* the timelines detection can yield for one track (_merge_raw_timeline output)
TrackTimelines == {tl \in SeqsUpTo(Intervals, MaxSegs) : TimelineInvariant(tl)}

SilentNothing(d) == <<>>

\* AudioSegment.silent(duration=d): d milliseconds, nothing audible in any
Silent(d) == [k \in 1..d |-> {}]

\* the audio of segment file seg_<start>_<end>.wav of directory dir: one
\* cell per millisecond, holding the (track, absolute instant) heard there
SegmentAudio(dir, seg) == [k \in 1..(seg[2] - seg[1]) |-> {<<dir, seg[1] + k - 1>>}]

\* base.overlay(seg_audio, position): mixes seg_audio into base from
\* position on; the result keeps the length of base
overlay(base, seg_audio, position) ==
    [k \in 1..Len(base) |->
        IF position < k /\ k <= position + Len(seg_audio)
        THEN base[k] \cup seg_audio[k - position]
        ELSE base[k]]

BufferDurationOwn(timeline, segs) == LastEnd(segs)

\* max_end_ms = adjust_pos_to_timeline(timeline, timeline[-1][1])
BufferDuration(timeline, segs) == adjust_pos_to_timeline(timeline, Last(timeline)[2])

OverlayPositionNative(timeline, start_ms) == start_ms

\* position=adjust_pos_to_timeline(timeline, start_ms)
OverlayPosition(timeline, start_ms) == adjust_pos_to_timeline(timeline, start_ms)

\* for segment_file in segment_files: final_audio = final_audio.overlay(...)
RECURSIVE OverlaySegments(_, _, _, _)
OverlaySegments(final_audio, segs, dir, timeline) ==
    IF segs = <<>> THEN final_audio
    ELSE OverlaySegments(
            overlay(final_audio, SegmentAudio(dir, Head(segs)),
                    OverlayPosition(timeline, Head(segs)[1])),
            Tail(segs), dir, timeline)

\* the audio exported to combined_audio_path
combine_segments_into_audio_with_timeline(segs, dir, timeline) ==
    IF segs = <<>> THEN Silent(PlaceholderMs)
    ELSE OverlaySegments(Silent(BufferDuration(timeline, segs)), segs, dir, timeline)

InitPre ==
    /\ AlgIdle
    /\ ShiftIdle
    /\ ExtIdle
    /\ \E n \in 1..MaxTracks : trackTimeline \in [1..n -> TrackTimelines]
    /\ pcMain = "map_process"
    /\ task = [i \in Tracks |-> "none"]
    /\ taskResult = [i \in Tracks |-> NoResult]
    /\ overtaken = FALSE
    /\ segFiles = [i \in Tracks |-> <<>>]
    /\ results = <<>>
    /\ pre_timelines = <<>>
    /\ segments_dir_list = <<>>
    /\ mergeCalls = 0
    /\ merged_timeline = <<>>
    /\ save = [i \in Tracks |-> "none"]
    /\ output = [i \in Tracks |-> NoFile]

Busy(futures) == {i \in DOMAIN futures : futures[i] = "running"}
Unfinished(futures) == {i \in DOMAIN futures : futures[i] \in {"pending", "running"}}

\* executor.map(process_file, audio_files): every task is submitted at once
SubmitProcess ==
    /\ pcMain = "map_process"
    /\ task' = [i \in Tracks |-> "pending"]
    /\ pcMain' = "collect"
    /\ UNCHANGED <<trackTimeline, taskResult, overtaken, segFiles, results, pre_timelines,
                   segments_dir_list, mergeCalls, merged_timeline, save, output>>
    /\ UNCHANGED <<algVars, shiftVars, extVars>>

\* a free worker thread takes the oldest queued task
StartProcess(i) ==
    /\ task[i] = "pending"
    /\ \A j \in 1..(i - 1) : task[j] # "pending"
    /\ Cardinality(Busy(task)) < PoolSize
    /\ task' = [task EXCEPT ![i] = "running"]
    /\ UNCHANGED <<trackTimeline, pcMain, taskResult, overtaken, segFiles, results, pre_timelines,
                   segments_dir_list, mergeCalls, merged_timeline, save, output>>
    /\ UNCHANGED <<algVars, shiftVars, extVars>>

\* process_file returns (segments_dir, timeline) of its own speaker file
FinishProcess(i) ==
    /\ task[i] = "running"
    /\ task' = [task EXCEPT ![i] = "done"]
    /\ taskResult' = [taskResult EXCEPT ![i] = <<i, trackTimeline[i]>>]
    /\ overtaken' = (overtaken \/ \E j \in 1..(i - 1) : task[j] \in {"pending", "running"})
    /\ segFiles' = [segFiles EXCEPT ![i] = trackTimeline[i]]
    /\ UNCHANGED <<trackTimeline, pcMain, results, pre_timelines,
                   segments_dir_list, mergeCalls, merged_timeline, save, output>>
    /\ UNCHANGED <<algVars, shiftVars, extVars>>

\* align_speaker_to_reference or detect_speech_timeline raises
FailProcess(i) ==
    /\ task[i] = "running"
    /\ task' = [task EXCEPT ![i] = "failed"]
    /\ UNCHANGED <<trackTimeline, pcMain, taskResult, overtaken, segFiles, results, pre_timelines,
                   segments_dir_list, mergeCalls, merged_timeline, save, output>>
    /\ UNCHANGED <<algVars, shiftVars, extVars>>

CollectResultSkipFailed ==
    /\ pcMain = "collect"
    /\ Len(results) < Len(trackTimeline)
    /\ LET k == Len(results) + 1 IN
          \/ /\ task[k] = "done"
             /\ results' = Append(results, taskResult[k])
          \/ /\ task[k] = "failed"
             /\ results' = Append(results, <<k, <<>>>>)
    /\ UNCHANGED <<task, pcMain>>
    /\ UNCHANGED <<trackTimeline, taskResult, overtaken, segFiles, pre_timelines,
                   segments_dir_list, mergeCalls, merged_timeline, save, output>>
    /\ UNCHANGED <<algVars, shiftVars, extVars>>

CollectResultAsCompleted ==
    /\ pcMain = "collect"
    /\ Len(results) < Len(trackTimeline)
    /\ \E k \in Tracks :
          /\ task[k] = "done"
          /\ \A j \in 1..Len(results) : results[j][1] # k
          /\ results' = Append(results, taskResult[k])
    /\ UNCHANGED <<task, pcMain>>
    /\ UNCHANGED <<trackTimeline, taskResult, overtaken, segFiles, pre_timelines,
                   segments_dir_list, mergeCalls, merged_timeline, save, output>>
    /\ UNCHANGED <<algVars, shiftVars, extVars>>

\* list(...) takes the next result in input order; the exception of a failed
\* task is raised here and the tasks still queued are cancelled
CollectResult ==
    /\ pcMain = "collect"
    /\ Len(results) < Len(trackTimeline)
    /\ LET k == Len(results) + 1 IN
          \/ /\ task[k] = "done"
             /\ results' = Append(results, taskResult[k])
             /\ UNCHANGED <<task, pcMain>>
          \/ /\ task[k] = "failed"
             /\ task' = [i \in Tracks |-> IF task[i] = "pending" THEN "cancelled" ELSE task[i]]
             /\ pcMain' = "shutdown_raise"
             /\ UNCHANGED results
    /\ UNCHANGED <<trackTimeline, taskResult, overtaken, segFiles, pre_timelines,
                   segments_dir_list, mergeCalls, merged_timeline, save, output>>
    /\ UNCHANGED <<algVars, shiftVars, extVars>>

\* leaving the with block on an exception: shutdown(wait=True), then the
\* exception leaves preprocess_multi_files
ExitPoolRaise ==
    /\ pcMain = "shutdown_raise"
    /\ Unfinished(task) = {}
    /\ pcMain' = "raised"
    /\ UNCHANGED <<trackTimeline, task, taskResult, overtaken, segFiles, results, pre_timelines,
                   segments_dir_list, mergeCalls, merged_timeline, save, output>>
    /\ UNCHANGED <<algVars, shiftVars, extVars>>

\* leaving the with block after every result was taken
ExitPool ==
    /\ pcMain = "collect"
    /\ Len(results) = Len(trackTimeline)
    /\ Unfinished(task) = {}
    /\ pcMain' = "unpack"
    /\ UNCHANGED <<trackTimeline, task, taskResult, overtaken, segFiles, results, pre_timelines,
                   segments_dir_list, mergeCalls, merged_timeline, save, output>>
    /\ UNCHANGED <<algVars, shiftVars, extVars>>

\* for segments_dir, timeline in results: append both
UnpackResults ==
    /\ pcMain = "unpack"
    /\ segments_dir_list' = [i \in 1..Len(results) |-> results[i][1]]
    /\ pre_timelines' = [i \in 1..Len(results) |-> results[i][2]]
    /\ pcMain' = "merge"
    /\ UNCHANGED <<trackTimeline, task, taskResult, overtaken, segFiles, results,
                   mergeCalls, merged_timeline, save, output>>
    /\ UNCHANGED <<algVars, shiftVars, extVars>>

\* merged_timeline = merge_timelines(timelines)
CallMerge ==
    /\ pcMain = "merge"
    /\ merged_timeline' \in merge_timelines(pre_timelines)
    /\ mergeCalls' = mergeCalls + 1
    /\ pcMain' = "map_save"
    /\ UNCHANGED <<trackTimeline, task, taskResult, overtaken, segFiles, results, pre_timelines,
                   segments_dir_list, save, output>>
    /\ UNCHANGED <<algVars, shiftVars, extVars>>

\* executor.map(save_audio_with_timeline, audio_files, segments_dir_list)
SubmitSave ==
    /\ pcMain = "map_save"
    /\ save' = [i \in Tracks |-> "pending"]
    /\ pcMain' = "shutdown_save"
    /\ UNCHANGED <<trackTimeline, task, taskResult, overtaken, segFiles, results, pre_timelines,
                   segments_dir_list, mergeCalls, merged_timeline, output>>
    /\ UNCHANGED <<algVars, shiftVars, extVars>>

StartSave(i) ==
    /\ save[i] = "pending"
    /\ \A j \in 1..(i - 1) : save[j] # "pending"
    /\ Cardinality(Busy(save)) < PoolSize
    /\ save' = [save EXCEPT ![i] = "running"]
    /\ UNCHANGED <<trackTimeline, pcMain, task, taskResult, overtaken, segFiles, results, pre_timelines,
                   segments_dir_list, mergeCalls, merged_timeline, output>>
    /\ UNCHANGED <<algVars, shiftVars, extVars>>

\* save_audio_with_timeline(audio_files[i], segments_dir_list[i])
FinishSave(i) ==
    /\ save[i] = "running"
    /\ save' = [save EXCEPT ![i] = "done"]
    /\ output' = [output EXCEPT ![i] =
                    combine_segments_into_audio_with_timeline(
                        segFiles[segments_dir_list[i]], segments_dir_list[i], merged_timeline)]
    /\ UNCHANGED <<trackTimeline, pcMain, task, taskResult, overtaken, segFiles, results, pre_timelines,
                   segments_dir_list, mergeCalls, merged_timeline>>
    /\ UNCHANGED <<algVars, shiftVars, extVars>>

\* the task raises before the export; nobody takes its result
FailSave(i) ==
    /\ save[i] = "running"
    /\ save' = [save EXCEPT ![i] = "failed"]
    /\ UNCHANGED <<trackTimeline, pcMain, task, taskResult, overtaken, segFiles, results, pre_timelines,
                   segments_dir_list, mergeCalls, merged_timeline, output>>
    /\ UNCHANGED <<algVars, shiftVars, extVars>>

\* leaving the second with block, then the workspace is removed
ExitSavePool ==
    /\ pcMain = "shutdown_save"
    /\ Unfinished(save) = {}
    /\ pcMain' = "returned"
    /\ UNCHANGED <<trackTimeline, task, taskResult, overtaken, segFiles, results, pre_timelines,
                   segments_dir_list, mergeCalls, merged_timeline, save, output>>
    /\ UNCHANGED <<algVars, shiftVars, extVars>>

NextPre ==
    \/ SubmitProcess
    \/ \E i \in Tracks : StartProcess(i)
    \/ \E i \in Tracks : FinishProcess(i)
    \/ \E i \in Tracks : FailProcess(i)
    \/ CollectResult
    \/ ExitPoolRaise
    \/ ExitPool
    \/ UnpackResults
    \/ CallMerge
    \/ SubmitSave
    \/ \E i \in Tracks : StartSave(i)
    \/ \E i \in Tracks : FinishSave(i)
    \/ \E i \in Tracks : FailSave(i)
    \/ ExitSavePool

SpecPre == InitPre /\ [][NextPre]_vars

\* the cells of track i's output that hold instant t of track i
WrittenAt(i, t) == {k \in 1..Len(output[i]) : <<i, t>> \in output[i][k]}

\* C7: remapped placement keeps tracks synchronized: for a segment [a, b) of
\* a track and an instant t with a <= t <= b, the position at which t is
\* written, adjust_pos_to_timeline(M, a) + (t - a), equals
\* adjust_pos_to_timeline(M, t); an instant retained in two tracks lands at
\* the same output position in both.
C7_Synchronized ==
    \A i \in DOMAIN save :
        save[i] = "done" =>
            \A seg \in Range(trackTimeline[i]) :
                \A t \in seg[1]..seg[2] :
                    /\ adjust_pos_to_timeline(merged_timeline, seg[1]) + (t - seg[1])
                          = adjust_pos_to_timeline(merged_timeline, t)
                    /\ t < seg[2] =>
                          WrittenAt(i, t) = {adjust_pos_to_timeline(merged_timeline, t) + 1}

C7_Witness ==
    /\ Len(trackTimeline) >= 2
    /\ save[1] = "done"
    /\ save[2] = "done"
    /\ trackTimeline[1] # trackTimeline[2]
    /\ \E t \in 1..MaxTime :
          /\ Covers(Range(trackTimeline[1]), t)
          /\ Covers(Range(trackTimeline[2]), t)
          /\ adjust_pos_to_timeline(merged_timeline, t) < t
          /\ WrittenAt(1, t) # {}
          /\ WrittenAt(1, t) = WrittenAt(2, t)

\* C8: merge_timelines is a synchronization barrier: it is called only after
\* the align-and-detect task of every speaker track has completed, its
\* argument holds exactly one completed timeline per speaker track, and when
\* a track's task fails it is never called.
C8_MergeBarrier ==
    /\ mergeCalls > 0 =>
          /\ \A i \in Tracks : task[i] = "done"
          /\ Len(pre_timelines) = Len(trackTimeline)
          /\ \A i \in Tracks : pre_timelines[i] = trackTimeline[i]
    /\ (\E i \in DOMAIN task : task[i] \in {"failed", "cancelled"}) => mergeCalls = 0
    /\ mergeCalls <= 1

C8_Witness ==
    /\ mergeCalls = 1
    /\ Len(trackTimeline) >= 2
    /\ trackTimeline[1] # trackTimeline[2]
    /\ trackTimeline[1] # <<>>
    /\ trackTimeline[2] # <<>>

\* the tracks whose output file was exported
OutputTracks == {i \in DOMAIN save : save[i] = "done"}

\* C9 as stated: after preprocess_multi_files completes, all per-track output
\* audio files have the same duration, for every combination of per-track
\* timelines.
C9_SameDuration ==
    pcMain = "returned" =>
        \A i, j \in OutputTracks : Len(output[i]) = Len(output[j])

\* C9 amended: after preprocess_multi_files completes, the output of every
\* track that has at least one segment has the duration of the shared merged
\* timeline, adjust_pos_to_timeline(M, M[-1][1]), whatever the track's own
\* segments are; the output of a track without segments is the 10 ms
\* placeholder.
C9_SameDurationWithSegments ==
    pcMain = "returned" =>
        \A i \in OutputTracks :
            Len(output[i]) =
                IF trackTimeline[i] = <<>> THEN PlaceholderMs
                ELSE adjust_pos_to_timeline(merged_timeline, LastEnd(merged_timeline))

C9_Witness ==
    /\ pcMain = "returned"
    /\ Len(trackTimeline) >= 2
    /\ OutputTracks = Tracks
    /\ trackTimeline[1] # <<>>
    /\ trackTimeline[2] # <<>>
    /\ LastEnd(trackTimeline[1]) # LastEnd(trackTimeline[2])
    /\ Len(output[1]) = Len(output[2])

\* ------------------------------------------------------------ shift_audio
Samples == 0..MaxSample

\* np.zeros(n) / the constant padding of np.pad
Zeros(n) == [k \in 1..n |-> 0]

ShiftByNoPad(audio, off, ref_len) ==
    IF off > 0 THEN audio
    ELSE IF off < 0
         THEN LET skip == -off IN
              IF skip >= Len(audio) THEN Zeros(ref_len)
              ELSE SubSeq(audio, skip + 1, Len(audio))
         ELSE audio

\* the shift itself: pad offset zeros in front, or drop |offset| samples
ShiftBy(audio, off, ref_len) ==
    IF off > 0 THEN Zeros(off) \o audio
    ELSE IF off < 0
         THEN LET skip == -off IN
              IF skip >= Len(audio) THEN Zeros(ref_len)
              ELSE SubSeq(audio, skip + 1, Len(audio))
         ELSE audio

FitLengthNoTruncate(audio, ref_len) ==
    IF Len(audio) < ref_len THEN audio \o Zeros(ref_len - Len(audio))
    ELSE audio

\* truncate or zero-pad to the length of the reference
FitLength(audio, ref_len) ==
    IF Len(audio) > ref_len THEN SubSeq(audio, 1, ref_len)
    ELSE IF Len(audio) < ref_len THEN audio \o Zeros(ref_len - Len(audio))
    ELSE audio

shift_audio(audio, off, ref_len) == FitLength(ShiftBy(audio, off, ref_len), ref_len)

InitShift ==
    /\ AlgIdle
    /\ PreIdle
    /\ ExtIdle
    /\ spk_audio \in SeqsUpTo(Samples, MaxLen)
    /\ offset \in (-(MaxLen + 1))..(MaxLen + 1)
    /\ ref_length \in 0..MaxRef
    /\ shifted = <<>>
    /\ shiftDone = FALSE

\* aligned_speaker = shift_audio(spk_full, offset, len(ref_full))
ShiftAudio ==
    /\ ~shiftDone
    /\ shifted' = shift_audio(spk_audio, offset, ref_length)
    /\ shiftDone' = TRUE
    /\ UNCHANGED <<spk_audio, offset, ref_length>>
    /\ UNCHANGED <<algVars, preVars, extVars>>

NextShift == ShiftAudio

SpecShift == InitShift /\ [][NextShift]_vars

\* C10: shift_audio returns an array of length ref_length for every
\* candidate length, ref_length and offset; when a negative offset's
\* magnitude is at least the candidate's length the result is all silence.
C10_ShiftedLength ==
    shiftDone =>
        /\ Len(shifted) = ref_length
        /\ (offset < 0 /\ -offset >= Len(spk_audio)) =>
              \A k \in 1..Len(shifted) : shifted[k] = 0

C10_Witness ==
    /\ shiftDone
    /\ offset < 0
    /\ -offset >= Len(spk_audio)
    /\ \E k \in 1..Len(spk_audio) : spk_audio[k] # 0
    /\ ref_length > 0
    /\ Len(shifted) = ref_length

SignedSamples == (-MaxSample)..MaxSample

\* sum of f over lo..hi
RECURSIVE SumRange(_, _, _)
SumRange(f, lo, hi) == IF lo > hi THEN 0 ELSE f[lo] + SumRange(f, lo + 1, hi)

\* signal.correlate(in1, in2, mode="full"): entry k (0-based) is the sum of
\* in1[l + lag] * in2[l] with lag = k - (len(in2) - 1), over the l where both
\* samples exist
Correlate(in1, in2) ==
    [idx \in 1..(Len(in1) + Len(in2) - 1) |->
        LET lag == (idx - 1) - (Len(in2) - 1)
            term == [l \in 1..Len(in2) |->
                        IF 1 <= l + lag /\ l + lag <= Len(in1)
                        THEN in1[l + lag] * in2[l]
                        ELSE 0]
        IN SumRange(term, 1, Len(in2))]

\* np.argmax: 0-based index of the first maximum
ArgMax(a) ==
    CHOOSE i \in 0..(Len(a) - 1) :
        /\ \A j \in 0..(Len(a) - 1) : a[j + 1] <= a[i + 1]
        /\ \A j \in 0..(i - 1) : a[j + 1] < a[i + 1]

FindOffsetRefLength(ref, spk) ==
    ArgMax(Correlate(ref, spk)) - (Len(ref) - 1)

find_offset_via_cross_correlation(ref, spk) ==
    ArgMax(Correlate(ref, spk)) - (Len(spk) - 1)

\* a reference window and the same signal delayed by `delay` samples
InitAlign ==
    /\ AlgIdle
    /\ PreIdle
    /\ \E n \in 1..MaxLen : ref_audio \in [1..n -> SignedSamples]
    /\ delay \in 0..MaxRef
    /\ spk_audio = Zeros(delay) \o ref_audio
    /\ ref_length = Len(ref_audio)
    /\ offset = 0
    /\ shifted = <<>>
    /\ shiftDone = FALSE
    /\ alignPc = "loaded"
    /\ AlignRestIdle

\* offset = find_offset_via_cross_correlation(ref_audio, spk_audio)
FindOffset ==
    /\ alignPc = "loaded"
    /\ offset' = find_offset_via_cross_correlation(ref_audio, spk_audio)
    /\ alignPc' = "offset"
    /\ UNCHANGED <<spk_audio, ref_length, shifted, shiftDone, ref_audio, delay>>
    /\ UNCHANGED <<algVars, preVars, alignRest>>

\* aligned_speaker = shift_audio(spk_full, offset, len(ref_full))
ShiftAligned ==
    /\ alignPc = "offset"
    /\ shifted' = shift_audio(spk_audio, offset, ref_length)
    /\ shiftDone' = TRUE
    /\ alignPc' = "shifted"
    /\ UNCHANGED <<spk_audio, offset, ref_length, ref_audio, delay>>
    /\ UNCHANGED <<algVars, preVars, alignRest>>

NextAlign == FindOffset \/ ShiftAligned

SpecAlign == InitAlign /\ [][NextAlign]_vars

NotAllZero(a) == \E i \in 1..Len(a) : a[i] # 0

NoInterval == <<>>

\* number of iterations of range(0, duration, chunk_size_ms)
NumChunks(d, c) == (d + c - 1) \div c

\* the chunk scanned at loop value i
ChunkIndex(i) == (i \div chunk_size_ms) + 1

RECURSIVE MergeRawLoopTouch(_, _)
MergeRawLoopTouch(timeline, rest) ==
    IF rest = <<>> THEN timeline
    ELSE LET seg == Head(rest) IN
         IF timeline = <<>> \/ seg[1] >= Last(timeline)[2]
         THEN MergeRawLoopTouch(Append(timeline, seg), Tail(rest))
         ELSE MergeRawLoopTouch(
                  Append(Front(timeline),
                         <<Last(timeline)[1], Max(Last(timeline)[2], seg[2])>>),
                  Tail(rest))

\* the loop of _merge_raw_timeline
RECURSIVE MergeRawLoop(_, _)
MergeRawLoop(timeline, rest) ==
    IF rest = <<>> THEN timeline
    ELSE LET seg == Head(rest) IN
         IF timeline = <<>> \/ seg[1] > Last(timeline)[2]
         THEN MergeRawLoop(Append(timeline, seg), Tail(rest))
         ELSE MergeRawLoop(
                  Append(Front(timeline),
                         <<Last(timeline)[1], Max(Last(timeline)[2], seg[2])>>),
                  Tail(rest))

_merge_raw_timeline(raw) == MergeRawLoop(<<>>, raw)

EarlyReturnNever(timeline) == FALSE

\* `if not timeline:` of from_audio
EarlyReturn(timeline) == timeline = <<>>

\* prepare_dir(path): afterwards the directory exists and holds no file
prepare_dir(dir) == [exists |-> TRUE, files |-> {}]

\* int(DEFAULT_CHUNK_DURATION * 1000), int(DEFAULT_BUFFER_DURATION * 1000)
DEFAULT_CHUNK_DURATION == 500
DEFAULT_BUFFER_DURATION == 250

\* track lengths scanned with the default chunk and buffer: whole chunks
\* and a partial last chunk
DefaultDurations == {2300, 3000}

InitDetect ==
    /\ AlgIdle
    /\ PreIdle
    /\ ShiftIdle
    /\ DetRestIdle
    /\ \/ /\ duration \in 0..MaxDuration
          /\ chunk_size_ms \in 1..MaxChunk
          /\ buffer_size_ms \in 0..MaxBuffer
       \/ /\ duration \in DefaultDurations
          /\ chunk_size_ms = DEFAULT_CHUNK_DURATION
          /\ buffer_size_ms = DEFAULT_BUFFER_DURATION
    /\ loud \in [1..NumChunks(duration, chunk_size_ms) -> BOOLEAN]
    /\ scan_i = 0
    /\ current_timeline = NoInterval
    /\ raw_timeline = <<>>
    /\ seg_timeline = <<>>
    /\ detPc = "scan"
    /\ is_transcribe \in BOOLEAN
    /\ segs_dir \in {[exists |-> FALSE, files |-> {}],
                     [exists |-> TRUE, files |-> {<<0, 1>>}]}
    /\ calls = [gain |-> 0, export |-> 0, transcribe |-> 0]

LoudStartUnclamped(i) == i - buffer_size_ms

\* start_ms = max(0, i - buffer_size_ms)
LoudStart(i) == Max(0, i - buffer_size_ms)

LoudEndNoBuffer(i) == Min(duration, i + chunk_size_ms)

\* end_ms = min(duration, i + chunk_size_ms + buffer_size_ms)
LoudEnd(i) == Min(duration, i + chunk_size_ms + buffer_size_ms)

\* one iteration of the detection loop on a chunk with dBFS > threshold_db
ScanLoud ==
    /\ detPc = "scan"
    /\ scan_i < duration
    /\ loud[ChunkIndex(scan_i)]
    /\ LET start_ms == LoudStart(scan_i)
           end_ms == LoudEnd(scan_i)
       IN current_timeline' =
              IF current_timeline = NoInterval
              THEN <<start_ms, end_ms>>
              ELSE <<current_timeline[1], end_ms>>
    /\ scan_i' = scan_i + chunk_size_ms
    /\ UNCHANGED <<loud, duration, chunk_size_ms, buffer_size_ms, raw_timeline,
                   seg_timeline, detPc, is_transcribe, segs_dir, calls>>
    /\ UNCHANGED <<algVars, preVars, shiftVars, detRest>>

\* one iteration of the detection loop on a chunk at or below the threshold
ScanQuiet ==
    /\ detPc = "scan"
    /\ scan_i < duration
    /\ ~loud[ChunkIndex(scan_i)]
    /\ IF current_timeline # NoInterval
       THEN /\ raw_timeline' = Append(raw_timeline, current_timeline)
            /\ current_timeline' = NoInterval
       ELSE UNCHANGED <<raw_timeline, current_timeline>>
    /\ scan_i' = scan_i + chunk_size_ms
    /\ UNCHANGED <<loud, duration, chunk_size_ms, buffer_size_ms,
                   seg_timeline, detPc, is_transcribe, segs_dir, calls>>
    /\ UNCHANGED <<algVars, preVars, shiftVars, detRest>>

EndScanNoClose ==
    /\ detPc = "scan"
    /\ scan_i >= duration
    /\ detPc' = "detected"
    /\ UNCHANGED <<loud, duration, chunk_size_ms, buffer_size_ms, scan_i,
                   current_timeline, raw_timeline, seg_timeline, is_transcribe,
                   segs_dir, calls>>
    /\ UNCHANGED <<algVars, preVars, shiftVars, detRest>>

\* after the loop: close the interval that is still open
EndScan ==
    /\ detPc = "scan"
    /\ scan_i >= duration
    /\ raw_timeline' = IF current_timeline # NoInterval
                       THEN Append(raw_timeline, current_timeline)
                       ELSE raw_timeline
    /\ detPc' = "detected"
    /\ UNCHANGED <<loud, duration, chunk_size_ms, buffer_size_ms, scan_i,
                   current_timeline, seg_timeline, is_transcribe, segs_dir, calls>>
    /\ UNCHANGED <<algVars, preVars, shiftVars, detRest>>

\* timeline = cls._merge_raw_timeline(raw_timeline)
MergeRaw ==
    /\ detPc = "detected"
    /\ seg_timeline' = _merge_raw_timeline(raw_timeline)
    /\ detPc' = "merged"
    /\ UNCHANGED <<loud, duration, chunk_size_ms, buffer_size_ms, scan_i,
                   current_timeline, raw_timeline, is_transcribe, segs_dir, calls>>
    /\ UNCHANGED <<algVars, preVars, shiftVars, detRest>>

\* no speech: prepare the segment directory and return
ReturnEmpty ==
    /\ detPc = "merged"
    /\ EarlyReturn(seg_timeline)
    /\ segs_dir' = prepare_dir(segs_dir)
    /\ detPc' = "from_audio_returned"
    /\ UNCHANGED <<loud, duration, chunk_size_ms, buffer_size_ms, scan_i,
                   current_timeline, raw_timeline, seg_timeline, is_transcribe, calls>>
    /\ UNCHANGED <<algVars, preVars, shiftVars, detRest>>

\* _calculate_gain_adjustment: ValueError on an empty list of levels
CalculateGain ==
    /\ detPc = "merged"
    /\ ~EarlyReturn(seg_timeline)
    /\ calls' = [calls EXCEPT !.gain = @ + 1]
    /\ detPc' = IF seg_timeline = <<>> THEN "raised" ELSE "gain"
    /\ UNCHANGED <<loud, duration, chunk_size_ms, buffer_size_ms, scan_i,
                   current_timeline, raw_timeline, seg_timeline, is_transcribe,
                   segs_dir>>
    /\ UNCHANGED <<algVars, preVars, shiftVars, detRest>>

\* _export_normalized_segments, then from_audio returns
ExportSegments ==
    /\ detPc = "gain"
    /\ segs_dir' = [prepare_dir(segs_dir) EXCEPT !.files = Range(seg_timeline)]
    /\ calls' = [calls EXCEPT !.export = @ + 1]
    /\ detPc' = "from_audio_returned"
    /\ UNCHANGED <<loud, duration, chunk_size_ms, buffer_size_ms, scan_i,
                   current_timeline, raw_timeline, seg_timeline, is_transcribe>>
    /\ UNCHANGED <<algVars, preVars, shiftVars, detRest>>

\* process: `if is_transcribe and processor.timeline:`
Transcribe ==
    /\ detPc = "from_audio_returned"
    /\ is_transcribe /\ seg_timeline # <<>>
    /\ calls' = [calls EXCEPT !.transcribe = @ + 1]
    /\ detPc' = "process_returned"
    /\ UNCHANGED <<loud, duration, chunk_size_ms, buffer_size_ms, scan_i,
                   current_timeline, raw_timeline, seg_timeline, is_transcribe,
                   segs_dir>>
    /\ UNCHANGED <<algVars, preVars, shiftVars, detRest>>

\* process: the else branch
SkipTranscribe ==
    /\ detPc = "from_audio_returned"
    /\ ~(is_transcribe /\ seg_timeline # <<>>)
    /\ detPc' = "process_returned"
    /\ UNCHANGED <<loud, duration, chunk_size_ms, buffer_size_ms, scan_i,
                   current_timeline, raw_timeline, seg_timeline, is_transcribe,
                   segs_dir, calls>>
    /\ UNCHANGED <<algVars, preVars, shiftVars, detRest>>

NextDetect ==
    \/ ScanLoud
    \/ ScanQuiet
    \/ EndScan
    \/ MergeRaw
    \/ ReturnEmpty
    \/ CalculateGain
    \/ ExportSegments
    \/ Transcribe
    \/ SkipTranscribe

SpecDetect == InitDetect /\ [][NextDetect]_vars

\* C13: for every sequence of loud/quiet chunks, every chunk size > 0 and
\* every buffer >= 0, the timeline produced by _detect_raw_timeline followed
\* by _merge_raw_timeline is in ascending order with start < end in every
\* interval and previous.end < next.start between neighbours.
C13_DetectedIsTimeline ==
    detPc \notin {"idle", "scan", "detected"} => TimelineInvariant(seg_timeline)

C13_Witness ==
    /\ detPc = "merged"
    /\ buffer_size_ms > 0
    /\ Len(raw_timeline) >= 2
    /\ raw_timeline[1][2] = raw_timeline[2][1]
    /\ Len(seg_timeline) < Len(raw_timeline)
    /\ TimelineInvariant(seg_timeline)

NoChunkLoud == \A c \in DOMAIN loud : ~loud[c]

RECURSIVE OverlaySegmentsNative(_, _, _)
OverlaySegmentsNative(final_audio, segs, dir) ==
    IF segs = <<>> THEN final_audio
    ELSE OverlaySegmentsNative(
            overlay(final_audio, SegmentAudio(dir, Head(segs)), Head(segs)[1]),
            Tail(segs), dir)

\* the audio combine_segments_into_audio exports
combine_segments_into_audio(segs, dir) ==
    IF segs = <<>> THEN Silent(PlaceholderMs)
    ELSE OverlaySegmentsNative(Silent(LastEnd(segs)), segs, dir)

InitCombine ==
    /\ AlgIdle
    /\ PreIdle
    /\ ShiftIdle
    /\ CmbRestIdle
    /\ cmb_files \in TrackTimelines
    /\ cmb_timeline \in TrackTimelines
    /\ cmb_dir_exists = TRUE
    /\ cmb_out = NoFile
    /\ cmbPc = "call"

\* combine_segments_into_audio(segs_folder_path, combined_audio_path)
CombineNative ==
    /\ cmbPc = "call"
    /\ cmb_out' = combine_segments_into_audio(cmb_files, 1)
    /\ cmb_dir_exists' = FALSE
    /\ cmbPc' = "returned_native"
    /\ UNCHANGED <<cmb_files, cmb_timeline>>
    /\ UNCHANGED <<algVars, preVars, shiftVars, cmbRest>>

\* combine_segments_into_audio_with_timeline(segs_folder_path,
\* combined_audio_path, timeline): timeline[-1] raises IndexError when
\* there are segment files and the timeline is empty
CombineWithTimeline ==
    /\ cmbPc = "call"
    /\ IF cmb_files # <<>> /\ cmb_timeline = <<>>
       THEN /\ cmbPc' = "raised"
            /\ UNCHANGED <<cmb_out, cmb_dir_exists>>
       ELSE /\ cmb_out' = combine_segments_into_audio_with_timeline(
                              cmb_files, 1, cmb_timeline)
            /\ cmb_dir_exists' = (cmb_files # <<>>)
            /\ cmbPc' = "returned_with_timeline"
    /\ UNCHANGED <<cmb_files, cmb_timeline>>
    /\ UNCHANGED <<algVars, preVars, shiftVars, cmbRest>>

NextCombine == CombineNative \/ CombineWithTimeline

SpecCombine == InitCombine /\ [][NextCombine]_vars

\* C15: when the directory holds no segment file, both reassembly modes
\* return normally and write a non-empty placeholder of one fixed duration,
\* for every timeline argument including the empty one.
C15_PlaceholderWritten ==
    (cmbPc \notin {"idle", "call"} /\ cmb_files = <<>>) =>
        /\ cmbPc \in {"returned_native", "returned_with_timeline"}
        /\ cmb_out = Silent(Len(cmb_out))
        /\ Len(cmb_out) = PlaceholderMs
        /\ Len(cmb_out) > 0

C15_Witness ==
    /\ cmbPc = "returned_with_timeline"
    /\ cmb_files = <<>>
    /\ cmb_timeline = <<>>
    /\ Len(cmb_out) = 10

\* ------------------------------------------------------------- strings
\* A str is a sequence of characters; a run of letters that holds none of
\* the characters the code splits on is kept as one element.
Digits == <<"0", "1", "2", "3", "4", "5", "6", "7", "8", "9">>

IsDigit(c) == \E d \in 1..10 : Digits[d] = c

DigitVal(c) == (CHOOSE d \in 1..10 : Digits[d] = c) - 1

\* str(n) for n >= 0
RECURSIVE IntToStr(_)
IntToStr(n) ==
    IF n < 10 THEN <<Digits[n + 1]>>
    ELSE IntToStr(n \div 10) \o <<Digits[(n % 10) + 1]>>

\* int(s) accepts a non-empty run of decimal digits (ValueError otherwise)
IsInt(s) == s # <<>> /\ \A i \in 1..Len(s) : IsDigit(s[i])

RECURSIVE ParseInt(_)
ParseInt(s) ==
    IF s = <<>> THEN 0
    ELSE 10 * ParseInt(Front(s)) + DigitVal(Last(s))

\* positions where sep occurs in s
Occurrences(s, sep) ==
    {i \in 1..(Len(s) - Len(sep) + 1) : SubSeq(s, i, i + Len(sep) - 1) = sep}

\* s.split(sep): the pieces between the occurrences of sep, left to right
RECURSIVE SplitStr(_, _)
SplitStr(s, sep) ==
    LET occ == Occurrences(s, sep)
    IN IF occ = {} THEN <<s>>
       ELSE LET i == CHOOSE j \in occ : \A k \in occ : j <= k
            IN <<SubSeq(s, 1, i - 1)>> \o
               SplitStr(SubSeq(s, i + Len(sep), Len(s)), sep)

\* s.strip(): leading and trailing whitespace removed
Whitespace == {"\n", " "}

RECURSIVE LStrip(_)
LStrip(s) == IF s # <<>> /\ Head(s) \in Whitespace THEN LStrip(Tail(s)) ELSE s

RECURSIVE RStrip(_)
RStrip(s) == IF s # <<>> /\ Last(s) \in Whitespace THEN RStrip(Front(s)) ELSE s

Strip(s) == RStrip(LStrip(s))

\* sep.join(parts)
RECURSIVE JoinStr(_, _)
JoinStr(sep, parts) ==
    IF parts = <<>> THEN <<>>
    ELSE IF Len(parts) = 1 THEN parts[1]
    ELSE parts[1] \o sep \o JoinStr(sep, Tail(parts))

\* s.replace(a, b) for single characters a and b
Replace(s, a, b) == [i \in 1..Len(s) |-> IF s[i] = a THEN b ELSE s[i]]

\* s.endswith(suffix)
EndsWith(s, suffix) ==
    /\ Len(s) >= Len(suffix)
    /\ SubSeq(s, Len(s) - Len(suffix) + 1, Len(s)) = suffix

\* code point order of the characters of a timestamp; letters come later
CharOrder == <<",", "-", ".", "/", "0", "1", "2", "3", "4", "5", "6", "7", "8", "9", ":">>

CharRank(c) ==
    IF \E i \in 1..Len(CharOrder) : CharOrder[i] = c
    THEN CHOOSE i \in 1..Len(CharOrder) : CharOrder[i] = c
    ELSE IF c \in Whitespace THEN 0
    ELSE Len(CharOrder) + 1

\* a < b for str
RECURSIVE StrLess(_, _)
StrLess(a, b) ==
    IF b = <<>> THEN FALSE
    ELSE IF a = <<>> THEN TRUE
    ELSE IF CharRank(Head(a)) # CharRank(Head(b))
         THEN CharRank(Head(a)) < CharRank(Head(b))
    ELSE StrLess(Tail(a), Tail(b))

\* ------------------------------ format_audio_filename / parse_audio_filename
\* f"{prefix}_{start}_{end}.wav"
format_audio_filename(prefix, start, end) ==
    prefix \o <<"_">> \o IntToStr(start) \o <<"_">> \o IntToStr(end) \o <<".", "wav">>

\* what the call returns, or the exception it raises
ParseResult(kind, start, end) == [kind |-> kind, start |-> start, end |-> end]

\* parts = filename.split("_"); parts[1], parts[2].split(".")[0]; int(), int()
parse_audio_filename(filename) ==
    LET parts == SplitStr(filename, <<"_">>)
    IN IF Len(parts) < 3 THEN ParseResult("IndexError", 0, 0)
       ELSE LET start_str == parts[2]
                end_str == SplitStr(parts[3], <<".">>)[1]
            IN IF IsInt(start_str) /\ IsInt(end_str)
               THEN ParseResult("ok", ParseInt(start_str), ParseInt(end_str))
               ELSE ParseResult("ValueError", 0, 0)

\* os.path.join / Path.__truediv__
JoinPath(dir, name) == IF dir = <<>> THEN name ELSE dir \o <<"/">> \o name

\* directories a segment file is parsed from: none, the ones of
\* test_parse_audio_filename, and "<stem>_segs" for stems with and
\* without underscores
SegmentDirs ==
    { <<>>,
      <<"folder">>,
      <<".", ".", "/", "folder">>,
      <<"tmp", "/", "kzjirwe", "_", "klae", "2", "5", "6", "_", "wj", "1">>,
      <<"tmp", "/", "ep", "1", "2", "-", "masa", "_", "segs">>,
      <<"ep", "_", "1", "_", "2", ".", "v", "1", "_", "segs">> }

\* start and end values, of one to three digits
NameTimes == (0..MaxTime) \cup {10, 100, 200}

InitName ==
    /\ AlgIdle
    /\ PreIdle
    /\ ShiftIdle
    /\ NameRestIdle
    /\ name_dir \in SegmentDirs
    /\ name_start \in NameTimes
    /\ name_end \in NameTimes
    /\ name_start < name_end
    /\ seg_path = <<>>
    /\ parsed = ParseResult("none", 0, 0)
    /\ namePc = "export"

\* seg_audio_path = output_folder / format_audio_filename("seg", seg[0], seg[1])
ExportName ==
    /\ namePc = "export"
    /\ seg_path' = JoinPath(name_dir, format_audio_filename(<<"seg">>, name_start, name_end))
    /\ namePc' = "exported"
    /\ UNCHANGED <<name_dir, name_start, name_end, parsed>>
    /\ UNCHANGED <<algVars, preVars, shiftVars, nameRest>>

\* start, _ = parse_audio_filename(str(segs_file_path))
ParseName ==
    /\ namePc = "exported"
    /\ parsed' = parse_audio_filename(seg_path)
    /\ namePc' = "parsed"
    /\ UNCHANGED <<name_dir, name_start, name_end, seg_path>>
    /\ UNCHANGED <<algVars, preVars, shiftVars, nameRest>>

NextName == ExportName \/ ParseName

SpecName == InitName /\ [][NextName]_vars

\* C16: for all 0 <= start < end and every directory path, including
\* directories whose names contain underscores, parse_audio_filename applied
\* to the path of the file named format_audio_filename("seg", start, end)
\* returns exactly (start, end).
C16_FilenameRoundTrip ==
    namePc = "parsed" => parsed = ParseResult("ok", name_start, name_end)

\* ------------------------------------------ time_to_seconds / format_time
\* A time in seconds is held as its whole number of milliseconds: every
\* timestamp has at most three fraction digits and every segment offset is
\* int(start_ms) / 1000, so the floats involved are k / 1000 and
\* round((seconds % 1) * 1000) gives k % 1000 back.
MsPerSecond == 1000
MsPerMinute == 60 * MsPerSecond
MsPerHour == 3600 * MsPerSecond

\* what a call returns (kind "ok") or the exception it raises
Outcome(kind, value) == [kind |-> kind, value |-> value]

\* f"{n:0w}"
RECURSIVE ZeroPad(_, _)
ZeroPad(digits, w) == IF Len(digits) >= w THEN digits ELSE ZeroPad(<<"0">> \o digits, w)

\* float("SS.mmm") as milliseconds; ValueError unless digits[.digits]
FloatMs(str) ==
    LET parts == SplitStr(str, <<".">>)
    IN IF Len(parts) = 1 /\ IsInt(parts[1])
       THEN Outcome("ok", ParseInt(parts[1]) * MsPerSecond)
       ELSE IF Len(parts) = 2 /\ IsInt(parts[1]) /\ IsInt(parts[2]) /\ Len(parts[2]) <= 3
       THEN Outcome("ok", ParseInt(parts[1]) * MsPerSecond
                           + ParseInt(parts[2] \o SubSeq(<<"0", "0">>, 1, 3 - Len(parts[2]))))
       ELSE Outcome("ValueError", 0)

\* hours, minutes, seconds = timestamp.replace(",", ".").split(":")
time_to_seconds(timestamp) ==
    LET parts == SplitStr(Replace(timestamp, ",", "."), <<":">>)
    IN IF Len(parts) # 3 THEN Outcome("ValueError", 0)
       ELSE IF ~IsInt(parts[1]) \/ ~IsInt(parts[2]) \/ FloatMs(parts[3]).kind # "ok"
       THEN Outcome("ValueError", 0)
       ELSE Outcome("ok", ParseInt(parts[1]) * MsPerHour + ParseInt(parts[2]) * MsPerMinute
                           + FloatMs(parts[3]).value)

FormatTimeMinutesUnreduced(seconds) ==
    ZeroPad(IntToStr(seconds \div MsPerHour), 2) \o <<":">> \o
    ZeroPad(IntToStr(seconds \div MsPerMinute), 2) \o <<":">> \o
    ZeroPad(IntToStr((seconds % MsPerMinute) \div MsPerSecond), 2) \o <<",">> \o
    ZeroPad(IntToStr(seconds % MsPerSecond), 3)

\* f"{hh:02}:{mm:02}:{ss:02},{ms:03}"
format_time(seconds) ==
    ZeroPad(IntToStr(seconds \div MsPerHour), 2) \o <<":">> \o
    ZeroPad(IntToStr((seconds % MsPerHour) \div MsPerMinute), 2) \o <<":">> \o
    ZeroPad(IntToStr((seconds % MsPerMinute) \div MsPerSecond), 2) \o <<",">> \o
    ZeroPad(IntToStr(seconds % MsPerSecond), 3)

\* ---------------------------------------------------------- parse_srt
\* blocks = f.read().strip().split("\n\n")
SrtBlocks(content) == SplitStr(Strip(content), <<"\n", "\n">>)

\* `if len(lines) < 3: continue`
TooShort(lines) == Len(lines) < 3

\* the entry parse_srt appends for a block; start, end = timestamp.split(" --> ")
\* raises ValueError unless there are exactly two parts
ParsedEntry(lines, speaker_name) ==
    LET parts == SplitStr(lines[2], <<" --> ">>)
    IN IF Len(parts) # 2 THEN Outcome("ValueError", <<>>)
       ELSE Outcome("ok",
                <<Replace(parts[1], ",", "."),
                  Replace(parts[2], ",", "."),
                  speaker_name \o <<":", " ">> \o
                      JoinStr(<<" ">>, SubSeq(lines, 3, Len(lines)))>>)

\* the loop over the blocks; lines[1] raises IndexError on a single line
RECURSIVE ParseSrtLoop(_, _, _)
ParseSrtLoop(blocks, speaker_name, entries) ==
    IF blocks = <<>> THEN Outcome("ok", entries)
    ELSE LET lines == SplitStr(Head(blocks), <<"\n">>)
         IN IF TooShort(lines)
            THEN ParseSrtLoop(Tail(blocks), speaker_name, entries)
            ELSE IF Len(lines) < 2 THEN Outcome("IndexError", <<>>)
            ELSE LET e == ParsedEntry(lines, speaker_name)
                 IN IF e.kind # "ok" THEN e
                    ELSE ParseSrtLoop(Tail(blocks), speaker_name, Append(entries, e.value))

\* parse_srt(file_path, speaker_name) on a file with this content
parse_srt(content, speaker_name) == ParseSrtLoop(SrtBlocks(content), speaker_name, <<>>)

\* ------------------------------------------------ _adjust_srt_timestamps
\* the entry _adjust_srt_timestamps appends for a block
AdjustedEntry(lines, start_offset) ==
    LET parts == SplitStr(lines[2], <<" --> ">>)
    IN IF Len(parts) # 2 THEN Outcome("ValueError", <<>>)
       ELSE LET s_seconds == time_to_seconds(parts[1])
                e_seconds == time_to_seconds(parts[2])
            IN IF s_seconds.kind # "ok" \/ e_seconds.kind # "ok"
               THEN Outcome("ValueError", <<>>)
               ELSE Outcome("ok",
                        <<format_time(start_offset + s_seconds.value),
                          format_time(start_offset + e_seconds.value),
                          JoinStr(<<" ">>, SubSeq(lines, 3, Len(lines)))>>)

\* the loop over the blocks; unpacking `_, timestamps, *text_lines` raises
\* ValueError on a single line
RECURSIVE AdjustSrtLoop(_, _, _)
AdjustSrtLoop(blocks, start_offset, segment_entries) ==
    IF blocks = <<>> THEN Outcome("ok", segment_entries)
    ELSE LET lines == SplitStr(Head(blocks), <<"\n">>)
         IN IF TooShort(lines)
            THEN AdjustSrtLoop(Tail(blocks), start_offset, segment_entries)
            ELSE IF Len(lines) < 2 THEN Outcome("ValueError", <<>>)
            ELSE LET e == AdjustedEntry(lines, start_offset)
                 IN IF e.kind # "ok" THEN e
                    ELSE AdjustSrtLoop(Tail(blocks), start_offset,
                                       Append(segment_entries, e.value))

\* no file at the path
MissingFile == [exists |-> FALSE, content |-> <<>>]

FileWith(content) == [exists |-> TRUE, content |-> content]

\* _adjust_srt_timestamps(transcribe_file_path, start_offset)
_adjust_srt_timestamps(file, start_offset) ==
    IF ~file.exists THEN Outcome("ok", <<>>)
    ELSE AdjustSrtLoop(SrtBlocks(file.content), start_offset, <<>>)

\* --------------------------------------------------- combine_srt_files
\* the speaker label taken from the file name
SpeakerName(srt_file) ==
    IF "-" \in Range(srt_file)
    THEN SplitStr(SplitStr(srt_file, <<"-">>)[2], <<".">>)[1]
    ELSE SplitStr(srt_file, <<".">>)[1]

\* one step of the stable sort on the start string
RECURSIVE InsertByStartStr(_, _)
InsertByStartStr(sorted, x) ==
    IF sorted = <<>> THEN <<x>>
    ELSE IF ~StrLess(x[1], Last(sorted)[1]) THEN Append(sorted, x)
    ELSE Append(InsertByStartStr(Front(sorted), x), Last(sorted))

SortEntriesNone(entries) == entries

\* all_entries.sort(key=lambda x: x[0])
RECURSIVE SortEntries(_)
SortEntries(entries) ==
    IF entries = <<>> THEN <<>>
    ELSE InsertByStartStr(SortEntries(Front(entries)), Last(entries))

\* for srt_file in srt_files: all_entries.extend(parse_srt(srt_path, speaker_name))
RECURSIVE CollectEntries(_, _, _)
CollectEntries(srt_files, dir, all_entries) ==
    IF srt_files = <<>> THEN Outcome("ok", all_entries)
    ELSE LET r == parse_srt(dir[Head(srt_files)].content, SpeakerName(Head(srt_files)))
         IN IF r.kind # "ok" THEN r
            ELSE CollectEntries(Tail(srt_files), dir, all_entries \o r.value)

\* the blocks written for entries i, i + 1, ...
RECURSIVE WriteEntries(_, _)
WriteEntries(entries, i) ==
    IF entries = <<>> THEN <<>>
    ELSE IntToStr(i) \o <<"\n">> \o
         Head(entries)[1] \o <<" --> ">> \o Head(entries)[2] \o <<"\n">> \o
         Head(entries)[3] \o <<"\n", "\n">> \o
         WriteEntries(Tail(entries), i + 1)

\* srt_files = [f for f in os.listdir(input_dir) if f.endswith(".srt")]
SrtFilesOf(listing) == SelectSeq(listing, LAMBDA f : EndsWith(f, <<".", "srt">>))

\* the content combine_srt_files writes to output_file when os.listdir
\* returns `listing`, or the exception it raises
combine_srt_files(listing, dir) ==
    LET all_entries == CollectEntries(SrtFilesOf(listing), dir, <<>>)
    IN IF all_entries.kind # "ok" THEN all_entries
       ELSE Outcome("ok", WriteEntries(SortEntries(all_entries.value), 1))

\* ------------------------------------------------ subtitle files: inputs
\* the per-track subtitle files of a directory and a file that is not one
AliceSrt == <<"ep", "0", "-", "alice", ".", "srt">>
BobSrt == <<"bob", ".", "srt">>
NotesTxt == <<"notes", ".", "txt">>
SrtNames == {AliceSrt, BobSrt}

\* output_file of combine_srt_files: <audio_prefix>.srt in the input
\* directory, as process_multi_files passes it, or a file elsewhere
OutSrt == <<"ep", "0", ".", "srt">>
OutsideSrt == <<"elsewhere", "/", "all", ".", "srt">>

\* the directories combine_srt_files is run on: empty, without a subtitle
\* file, with one subtitle file, with two
Directories ==
    { {}, {NotesTxt}, {AliceSrt}, {BobSrt}, {AliceSrt, NotesTxt}, {AliceSrt, BobSrt} }

\* start times of the blocks, in ms, and the length of a block
SrtTimes == {0, 5000}
BlockMs == 5000

\* a block is written with three lines ("full"), with two text lines
\* ("multi"), with the text on the timestamp line ("short", two lines), as
\* a lone line ("one"), or with index and timestamp and an empty text
\* ("empty": the transcriber had no words for the segment)
BlockKinds == {"full", "multi", "short", "one", "empty"}

BlockChoices(names) == [file : names, kind : BlockKinds, start : SrtTimes]

\* the blocks written to file f, in order
BlocksOf(blocks, f) == SelectSeq(blocks, LAMBDA b : b.file = f)

BlockText(j) == <<"text", Digits[j + 1]>>
BlockMore(j) == <<"more", Digits[j + 1]>>

\* block number j of a file, as transcribe_segments and the transcriber
\* write it: index, "start --> end", text, blank line
RenderBlock(b, j) ==
    LET ts == format_time(b.start) \o <<" --> ">> \o format_time(b.start + BlockMs)
    IN CASE b.kind = "full" ->
              IntToStr(j) \o <<"\n">> \o ts \o <<"\n">> \o BlockText(j) \o <<"\n", "\n">>
         [] b.kind = "multi" ->
              IntToStr(j) \o <<"\n">> \o ts \o <<"\n">> \o BlockText(j) \o <<"\n">> \o
              BlockMore(j) \o <<"\n", "\n">>
         [] b.kind = "short" ->
              IntToStr(j) \o <<"\n">> \o ts \o <<" ">> \o BlockText(j) \o <<"\n", "\n">>
         [] b.kind = "empty" ->
              IntToStr(j) \o <<"\n">> \o ts \o <<"\n">> \o <<"\n", "\n">>
         [] OTHER -> BlockText(j) \o <<"\n", "\n">>

RECURSIVE RenderBlocks(_, _)
RenderBlocks(bs, j) ==
    IF bs = <<>> THEN <<>> ELSE RenderBlock(Head(bs), j) \o RenderBlocks(Tail(bs), j + 1)

InitSrtFiles ==
    /\ \E names \in Directories :
          /\ srt_blocks \in SeqsUpTo(BlockChoices(names \cap SrtNames), MaxBlocks)
          /\ srt_dir = [f \in SrtNames \cup {NotesTxt, OutSrt} |->
                           IF f \notin names THEN MissingFile
                           ELSE IF f = NotesTxt THEN FileWith(<<"todo", "\n">>)
                           ELSE FileWith(RenderBlocks(BlocksOf(srt_blocks, f), 1))]
    /\ srt_out = MissingFile
    /\ srt_call = "none"
    /\ srt_arg = <<>>
    /\ srt_offset = 0
    /\ srt_result = Outcome("none", <<>>)

InitSrt ==
    /\ AlgIdle
    /\ PreIdle
    /\ ShiftIdle
    /\ SrtRestIdle
    /\ InitSrtFiles

\* the files of the directory
Listing == {f \in DOMAIN srt_dir : srt_dir[f].exists}

\* the files parse_srt was called on: all of them, or those up to the one
\* whose parsing raised
RECURSIVE FilesRead(_, _)
FilesRead(srt_files, dir) ==
    IF srt_files = <<>> THEN {}
    ELSE IF parse_srt(dir[Head(srt_files)].content, SpeakerName(Head(srt_files))).kind # "ok"
         THEN {Head(srt_files)}
         ELSE {Head(srt_files)} \cup FilesRead(Tail(srt_files), dir)

RemoveReadNone(dir, read) == dir

\* os.remove(file_path) of parse_srt, for every file it was called on
RemoveRead(dir, read) ==
    [f \in DOMAIN dir |-> IF f \in read THEN MissingFile ELSE dir[f]]

\* the directory after combine_srt_files(input_dir, out) when os.listdir
\* returns `listing`: the files read are removed, and the combined file is
\* there when out lies in the directory and no parse_srt call raised
DirAfterCombine(listing, dir, out) ==
    LET r == combine_srt_files(listing, dir)
        read == IF r.kind = "ok" THEN Range(SrtFilesOf(listing))
                ELSE FilesRead(SrtFilesOf(listing), dir)
        removed == RemoveRead(dir, read)
    IN IF r.kind = "ok" /\ out \in DOMAIN dir
       THEN [removed EXCEPT ![out] = FileWith(r.value)]
       ELSE removed

\* combine_srt_files(input_dir, output_file): output_file is written only
\* when no parse_srt call raised
CombineSrtFiles ==
    /\ srt_call = "none"
    /\ \E out \in {OutSrt, OutsideSrt}, listing \in SetOrders(Listing) :
          LET r == combine_srt_files(listing, srt_dir)
          IN /\ srt_result' = r
             /\ srt_out' = IF r.kind = "ok" THEN FileWith(r.value) ELSE srt_out
             /\ srt_dir' = DirAfterCombine(listing, srt_dir, out)
             /\ srt_arg' = out
    /\ srt_call' = "combine"
    /\ UNCHANGED <<srt_blocks, srt_offset>>
    /\ UNCHANGED <<algVars, preVars, shiftVars, srtRest>>

\* a later call of combine_srt_files with the same arguments
CombineSrtFilesAgain ==
    /\ srt_call = "combine"
    /\ srt_result.kind = "ok"
    /\ \E listing \in SetOrders(Listing) :
          LET r == combine_srt_files(listing, srt_dir)
          IN /\ srt_result' = r
             /\ srt_out' = IF r.kind = "ok" THEN FileWith(r.value) ELSE srt_out
             /\ srt_dir' = DirAfterCombine(listing, srt_dir, srt_arg)
    /\ srt_call' = "combine_again"
    /\ UNCHANGED <<srt_blocks, srt_arg, srt_offset>>
    /\ UNCHANGED <<algVars, preVars, shiftVars, srtRest>>

\* parse_srt(file_path, speaker_name) on one subtitle file
ParseSrt ==
    /\ srt_call = "none"
    /\ \E f \in Listing \cap SrtNames :
          /\ srt_arg' = f
          /\ srt_result' = parse_srt(srt_dir[f].content, SpeakerName(f))
          /\ srt_dir' = [srt_dir EXCEPT ![f] = MissingFile]
    /\ srt_call' = "parse"
    /\ UNCHANGED <<srt_blocks, srt_out, srt_offset>>
    /\ UNCHANGED <<algVars, preVars, shiftVars, srtRest>>

\* segment start offsets, in ms
SrtOffsets == {0, 1500}

\* _adjust_srt_timestamps(transcribe_file_path, start_offset) on one
\* subtitle file, which may be missing
AdjustSrt ==
    /\ srt_call = "none"
    /\ \E f \in SrtNames, off \in SrtOffsets :
          /\ srt_arg' = f
          /\ srt_offset' = off
          /\ srt_result' = _adjust_srt_timestamps(srt_dir[f], off)
    /\ srt_call' = "adjust"
    /\ UNCHANGED <<srt_blocks, srt_dir, srt_out>>
    /\ UNCHANGED <<algVars, preVars, shiftVars, srtRest>>

NextSrt == CombineSrtFiles \/ CombineSrtFilesAgain \/ ParseSrt \/ AdjustSrt

SpecSrt == InitSrt /\ [][NextSrt]_vars

\* a block with index line, timestamp line and text
WellFormed(b) == b.kind \in {"full", "multi"}

\* the position of block k among the blocks of its file
NumberInFile(k) ==
    Cardinality({i \in 1..k : srt_blocks[i].file = srt_blocks[k].file})

\* the text of block k once its text lines are joined
JoinedText(k) ==
    IF srt_blocks[k].kind = "multi"
    THEN BlockText(NumberInFile(k)) \o <<" ">> \o BlockMore(NumberInFile(k))
    ELSE BlockText(NumberInFile(k))

\* the blocks with at least three lines: what the directory has to say
SpokenBlocks == {k \in 1..Len(srt_blocks) : WellFormed(srt_blocks[k])}

SpokenIn(f) == {k \in SpokenBlocks : srt_blocks[k].file = f}

\* the blocks of the written file and their lines
OutBlocks == IF srt_out.content = <<>> THEN <<>> ELSE SrtBlocks(srt_out.content)

OutLines(i) == SplitStr(OutBlocks[i], <<"\n">>)

OutStamps(i) == SplitStr(OutLines(i)[2], <<" --> ">>)

\* the time a written timestamp denotes, in ms
OutMs(stamp) == time_to_seconds(stamp).value

C18_ShortBlocksSkipped ==
    /\ srt_call \in {"parse", "adjust"} =>
          /\ srt_result.kind = "ok"
          /\ Len(srt_result.value) = Cardinality(SpokenIn(srt_arg))
    /\ srt_call = "combine" =>
          /\ srt_result.kind = "ok"
          /\ Len(OutBlocks) = Cardinality(SpokenBlocks)

\* HH:MM:SS,mmm with a comma before the milliseconds
IsSrtTimestamp(str) ==
    /\ Len(str) = 12
    /\ \A i \in {1, 2, 4, 5, 7, 8, 10, 11, 12} : IsDigit(str[i])
    /\ str[3] = ":" /\ str[6] = ":" /\ str[9] = ","

\* text carries the label of one of the directory's subtitle files
HasSpeakerPrefix(text) ==
    \E f \in SrtNames :
        LET prefix == SpeakerName(f) \o <<":", " ">>
        IN Len(text) > Len(prefix) /\ SubSeq(text, 1, Len(prefix)) = prefix

\* blocks i.. of the written file put together again as
\* index, start --> end, text, blank line
RECURSIVE Reassembled(_)
Reassembled(i) ==
    IF i > Len(OutBlocks) THEN <<>>
    ELSE OutLines(i)[1] \o <<"\n">> \o
         OutStamps(i)[1] \o <<" --> ">> \o OutStamps(i)[2] \o <<"\n">> \o
         OutLines(i)[3] \o <<"\n", "\n">> \o Reassembled(i + 1)

\* C19: the file written by combine_srt_files consists of sequential blocks
\* "index, start --> end, text, blank line" in which every text carries the
\* "speaker: " prefix and every timestamp has the form HH:MM:SS,mmm with a
\* comma as the millisecond separator.
C19_MergedFormat ==
    (srt_call = "combine" /\ srt_result.kind = "ok") =>
        /\ \A i \in 1..Len(OutBlocks) :
              /\ Len(OutLines(i)) = 3
              /\ OutLines(i)[1] = IntToStr(i)
              /\ Len(OutStamps(i)) = 2
              /\ IsSrtTimestamp(OutStamps(i)[1])
              /\ IsSrtTimestamp(OutStamps(i)[2])
              /\ HasSpeakerPrefix(OutLines(i)[3])
        /\ srt_out.content = Reassembled(1)

\* ------------------------------- _adjust_srt_timestamps on one segment
\* the subtitle file the transcriber writes next to a segment file
SegSrt == <<"seg", "_", "0", "_", "1", ".", "srt">>

\* a timestamp as the transcriber writes it, from its four fields
Stamp(h, m, sec, f) == [h |-> h, m |-> m, s |-> sec, f |-> f]

StampChoices == [h : {0, 1, 99}, m : {0, 59}, s : {0, 59}, f : {0, 1, 999}]

StampStr(t) ==
    ZeroPad(IntToStr(t.h), 2) \o <<":">> \o ZeroPad(IntToStr(t.m), 2) \o <<":">> \o
    ZeroPad(IntToStr(t.s), 2) \o <<",">> \o ZeroPad(IntToStr(t.f), 3)

StampMs(t) == t.h * MsPerHour + t.m * MsPerMinute + t.s * MsPerSecond + t.f

\* int(start) of the segment file name, in ms: start_offset * 1000
SegmentStarts == {0, 1, 999, 1000, 1500, 60000, 3600000}

InitAdjust ==
    /\ AlgIdle
    /\ PreIdle
    /\ ShiftIdle
    /\ SrtRestIdle
    /\ \E st \in StampChoices, en \in StampChoices :
          srt_blocks = <<[file |-> SegSrt, kind |-> "full", start |-> st, end |-> en]>>
    /\ srt_dir = [f \in {SegSrt} |->
                     FileWith(<<"1", "\n">> \o StampStr(srt_blocks[1].start) \o <<" --> ">> \o
                              StampStr(srt_blocks[1].end) \o <<"\n", "text", "\n", "\n">>)]
    /\ srt_out = MissingFile
    /\ srt_call = "none"
    /\ srt_arg = SegSrt
    /\ srt_offset \in SegmentStarts
    /\ srt_result = Outcome("none", <<>>)

\* self._adjust_srt_timestamps(srt_output_path, start_seconds)
AdjustSegment ==
    /\ srt_call = "none"
    /\ srt_result' = _adjust_srt_timestamps(srt_dir[srt_arg], srt_offset)
    /\ srt_call' = "adjust_segment"
    /\ UNCHANGED <<srt_blocks, srt_dir, srt_out, srt_arg, srt_offset>>
    /\ UNCHANGED <<algVars, preVars, shiftVars, srtRest>>

NextAdjust == AdjustSegment

SpecAdjust == InitAdjust /\ [][NextAdjust]_vars

\* the fields of HH:MM:SS,mmm: two or more hour digits, two minute digits,
\* two second digits, a comma and three millisecond digits
StampFields(str) ==
    LET parts == SplitStr(str, <<":">>)
        secs == IF Len(parts) = 3 THEN SplitStr(parts[3], <<",">>) ELSE <<>>
    IN IF /\ Len(parts) = 3 /\ Len(secs) = 2
          /\ IsInt(parts[1]) /\ Len(parts[1]) >= 2
          /\ IsInt(parts[2]) /\ Len(parts[2]) = 2
          /\ IsInt(secs[1]) /\ Len(secs[1]) = 2
          /\ IsInt(secs[2]) /\ Len(secs[2]) = 3
       THEN [ok |-> TRUE, h |-> ParseInt(parts[1]), m |-> ParseInt(parts[2]),
             s |-> ParseInt(secs[1]), f |-> ParseInt(secs[2])]
       ELSE [ok |-> FALSE, h |-> 0, m |-> 0, s |-> 0, f |-> 0]

\* str is HH:MM:SS,mmm with minutes and seconds in 00..59 and denotes ms
Denotes(str, ms) ==
    LET t == StampFields(str)
    IN /\ t.ok
       /\ t.m <= 59 /\ t.s <= 59 /\ t.f <= 999
       /\ StampMs(t) = ms

AtLoudChunk ==
    /\ detPc = "scan"
    /\ scan_i < duration
    /\ loud[ChunkIndex(scan_i)]

\* end of the audio of the chunk audio[i : i + chunk_size_ms]
ChunkEnd(i) == IF i + chunk_size_ms <= duration THEN i + chunk_size_ms ELSE duration

\* the interval held after a loud chunk, given the span the chunk asks for
AfterLoud(span) ==
    current_timeline' = IF current_timeline = NoInterval
                        THEN span
                        ELSE <<current_timeline[1], span[2]>>

\* C24 as stated: on a loud chunk with no interval open the detector opens
\* exactly [chunk_start - buffer, chunk_end + buffer], and with an interval
\* open it sets the end to exactly chunk_end + buffer, at every chunk
\* position including the first and the last chunk.
C24_LoudChunkExact ==
    [][AtLoudChunk =>
          AfterLoud(<<scan_i - buffer_size_ms,
                      ChunkEnd(scan_i) + buffer_size_ms>>)]_vars

\* C24 amended: the span is clamped to the track. The start is
\* chunk_start - buffer, or 0 when that is negative; the end is
\* chunk_start + chunk_size + buffer, or the track duration when that is
\* beyond it. Away from both ends of the track the span is the stated one.
C24_LoudChunkClamped ==
    [][AtLoudChunk =>
          LET lo == IF scan_i >= buffer_size_ms
                    THEN scan_i - buffer_size_ms ELSE 0
              hi == IF scan_i + chunk_size_ms + buffer_size_ms <= duration
                    THEN scan_i + chunk_size_ms + buffer_size_ms ELSE duration
          IN /\ AfterLoud(<<lo, hi>>)
             /\ (scan_i >= buffer_size_ms
                 /\ scan_i + chunk_size_ms + buffer_size_ms <= duration) =>
                    AfterLoud(<<scan_i - buffer_size_ms,
                                ChunkEnd(scan_i) + buffer_size_ms>>)]_vars

\* every chunk of a track with a partial last chunk was loud: the interval
\* was opened at the first chunk and extended at the last
C24_Witness ==
    /\ detPc = "scan"
    /\ scan_i >= duration
    /\ buffer_size_ms > 0
    /\ NumChunks(duration, chunk_size_ms) >= 3
    /\ duration % chunk_size_ms # 0
    /\ \A c \in DOMAIN loud : loud[c]
    /\ current_timeline = <<0, duration>>

\* the maximal runs of consecutive loud chunks among chunks 1..n, each as
\* <<first chunk, last chunk>>, in scan order
RECURSIVE RunsUpTo(_)
RunsUpTo(n) ==
    IF n = 0 THEN <<>>
    ELSE LET prev == RunsUpTo(n - 1) IN
         IF ~loud[n] THEN prev
         ELSE IF n > 1 /\ loud[n - 1]
              THEN Append(Front(prev), <<Last(prev)[1], n>>)
              ELSE Append(prev, <<n, n>>)

\* number of chunks the loop has scanned
Scanned == scan_i \div chunk_size_ms

\* interval iv contains the audio of every chunk of the run
ContainsRun(iv, run) ==
    \A c \in run[1]..run[2] :
        /\ iv[1] <= (c - 1) * chunk_size_ms
        /\ ChunkEnd((c - 1) * chunk_size_ms) <= iv[2]

\* C25: an interval is open exactly when the most recently scanned chunk was
\* loud; the raw list holds exactly one interval per maximal run of loud
\* chunks that has ended (by a quiet chunk or by the end of the track), in
\* scan order, and every loud chunk lies in the interval of its run.
C25_OneIntervalPerRun ==
    detPc # "idle" =>
        LET runs == RunsUpTo(Scanned)
            active == detPc = "scan" /\ Scanned > 0 /\ loud[Scanned]
            closed == IF active THEN Front(runs) ELSE runs
        IN /\ detPc = "scan" => ((current_timeline # NoInterval) <=> active)
           /\ active => ContainsRun(current_timeline, Last(runs))
           /\ Len(raw_timeline) = Len(closed)
           /\ \A k \in 1..Len(closed) : ContainsRun(raw_timeline[k], closed[k])

\* three runs: one closed by a quiet chunk, one more, one by the end of track
C25_Witness ==
    /\ detPc = "detected"
    /\ Len(RunsUpTo(Scanned)) = 3
    /\ loud[Scanned]
    /\ Len(raw_timeline) = 3
    /\ \E k \in 1..3 : RunsUpTo(Scanned)[k][2] > RunsUpTo(Scanned)[k][1]

\* runs k and k + 1 lie in one interval of the merged timeline
InOneInterval(runs, k) ==
    \E j \in 1..Len(seg_timeline) :
        /\ ContainsRun(seg_timeline[j], runs[k])
        /\ ContainsRun(seg_timeline[j], runs[k + 1])

\* number of quiet chunks between runs k and k + 1
QuietBetween(runs, k) == runs[k + 1][1] - runs[k][2] - 1

PlacedRange(seg) ==
    LET lo == OverlayPosition(merged_timeline, seg[1])
    IN <<lo, lo + (seg[2] - seg[1])>>

\* C27: with M the merged timeline of all tracks, every segment [a, b) of a
\* track fits in the output buffer,
\* adjust_pos_to_timeline(M, a) + (b - a) <= adjust_pos_to_timeline(M, M[-1][1]),
\* and two segments of the same track are written to disjoint output ranges
\* in their original order: in the exported audio every instant of every
\* segment is present once and no cell holds two instants.
C27_SegmentsFitDisjoint ==
    mergeCalls > 0 =>
        \A i \in Tracks :
            LET tl == trackTimeline[i] IN
            /\ \A j \in 1..Len(tl) :
                  PlacedRange(tl[j])[2] <= BufferDuration(merged_timeline, tl)
            /\ \A j \in 1..(Len(tl) - 1) :
                  PlacedRange(tl[j])[2] <= PlacedRange(tl[j + 1])[1]
            /\ save[i] = "done" =>
                  /\ \A seg \in Range(tl) : \A t \in seg[1]..(seg[2] - 1) :
                        Cardinality(WrittenAt(i, t)) = 1
                  /\ \A k \in 1..Len(output[i]) : Cardinality(output[i][k]) <= 1

\* a track with two segments and a gap no track fills, so that the merged
\* timeline moves the second segment forward, up to the end of the buffer
C27_Witness ==
    /\ Len(trackTimeline) = 2
    /\ Len(trackTimeline[1]) = 2
    /\ save[1] = "done"
    /\ Len(merged_timeline) = 2
    /\ PlacedRange(trackTimeline[1][2])[1] < trackTimeline[1][2][1]
    /\ PlacedRange(trackTimeline[1][2])[2] = Len(output[1])

\* ------------------------------------- preprocess_multi_files: the pairing
\* C28: for every order in which the per-track tasks complete, the output
\* named after speaker file i is assembled from the segment directory and
\* the timeline produced from speaker file i: results are paired with
\* tracks by input position, never by completion order.
C28_PairedByPosition ==
    /\ pcMain \in {"merge", "map_save", "shutdown_save", "returned"} =>
          \A i \in Tracks :
              /\ segments_dir_list[i] = i
              /\ pre_timelines[i] = trackTimeline[i]
    /\ \A i \in DOMAIN save :
          save[i] = "done" =>
              /\ output[i] = combine_segments_into_audio_with_timeline(
                                 trackTimeline[i], i, merged_timeline)
              /\ \A k \in 1..Len(output[i]) : \A c \in output[i][k] : c[1] = i

\* the second track's task finished before the first track's in the first
\* phase, and its output is written before the first track's in the second
C28_Witness ==
    /\ overtaken
    /\ Len(trackTimeline) = 2
    /\ trackTimeline[1] # <<>>
    /\ trackTimeline[2] # <<>>
    /\ trackTimeline[1] # trackTimeline[2]
    /\ save[1] = "running"
    /\ save[2] = "done"
    /\ \E k \in 1..Len(output[2]) : output[2][k] # {}

\* C29: if the remapped reassembly task of a track raises in the second
\* parallel phase, preprocess_multi_files does not return normally.
C29_SaveFailureReported ==
    pcMain = "returned" => \A i \in DOMAIN save : save[i] # "failed"

\* ---------------------------------------------------- combine_audio_files
\* the range of a signed 16-bit sample
SampleMin == -32768
SampleMax == 32767

\* sample values loud enough for two of them to leave the 16-bit range
MixSamples == {-20000, 20000}

\* a finished track: at least one 16-bit sample, all at one sample rate
MixAudios == UNION {[1..n -> MixSamples] : n \in 1..MaxMixLen}

\* the addition of two 16-bit samples, truncated in case of overflow
Saturate(x) ==
    IF x > SampleMax THEN SampleMax ELSE IF x < SampleMin THEN SampleMin ELSE x

\* combined_audio.overlay(audio): audio is added into combined_audio from
\* position 0; the result keeps the length of combined_audio
OverlayAdd(combined_audio, audio) ==
    [k \in 1..Len(combined_audio) |->
        IF k <= Len(audio)
        THEN Saturate(combined_audio[k] + audio[k])
        ELSE combined_audio[k]]

\* one step of the stable sort by duration, longest first
RECURSIVE InsertByDuration(_, _)
InsertByDuration(sorted, x) ==
    IF sorted = <<>> THEN <<x>>
    ELSE IF Len(Head(sorted)) >= Len(x)
         THEN <<Head(sorted)>> \o InsertByDuration(Tail(sorted), x)
         ELSE <<x>> \o sorted

\* aligned_audio_paths.sort(key=duration_seconds, reverse=True)
RECURSIVE SortByDuration(_)
SortByDuration(paths) ==
    IF paths = <<>> THEN <<>>
    ELSE InsertByDuration(SortByDuration(Front(paths)), Last(paths))

\* combined_audio = None
NoCombined == [none |-> TRUE, audio |-> <<>>]

\* for path in aligned_audio_paths: the first audio, then overlays onto it
RECURSIVE MixLoop(_, _)
MixLoop(combined_audio, paths) ==
    IF paths = <<>> THEN combined_audio
    ELSE MixLoop(
            IF combined_audio.none
            THEN [none |-> FALSE, audio |-> Head(paths)]
            ELSE [none |-> FALSE,
                  audio |-> OverlayAdd(combined_audio.audio, Head(paths))],
            Tail(paths))

\* `if combined_audio:` is false for None and for an audio of length 0
Truthy(combined_audio) == ~combined_audio.none /\ Len(combined_audio.audio) > 0

NotWritten == [exists |-> FALSE, audio |-> <<>>]

\* the file at output_audio_path after combine_audio_files(paths, ...)
combine_audio_files(paths) ==
    LET combined_audio == MixLoop(NoCombined, SortByDuration(paths))
    IN IF Truthy(combined_audio)
       THEN [exists |-> TRUE, audio |-> combined_audio.audio]
       ELSE NotWritten

InitMix ==
    /\ AlgIdle
    /\ PreIdle
    /\ ShiftIdle
    /\ SecondIdle
    /\ InIdle
    /\ ToolIdle
    /\ mix_tracks \in SeqsUpTo(MixAudios, MaxMixTracks)
    /\ mix_out = NotWritten
    /\ mixPc = "call"

CombineAudioFiles ==
    /\ mixPc = "call"
    /\ mix_out' = combine_audio_files(mix_tracks)
    /\ mixPc' = "returned"
    /\ UNCHANGED mix_tracks
    /\ UNCHANGED <<algVars, preVars, shiftVars, secondVars, mixRest>>

NextMix == CombineAudioFiles

SpecMix == InitMix /\ [][NextMix]_vars

\* the sample of a track at position k, 0 beyond its end
SampleAt(track, k) == IF k <= Len(track) THEN track[k] ELSE 0

RECURSIVE SumAt(_, _)
SumAt(tracks, k) ==
    IF tracks = <<>> THEN 0 ELSE SampleAt(Head(tracks), k) + SumAt(Tail(tracks), k)

RECURSIVE LongestLen(_)
LongestLen(tracks) ==
    IF tracks = <<>> THEN 0 ELSE Max(Len(Head(tracks)), LongestLen(Tail(tracks)))

\* C21: for any list of 16-bit tracks, combine_audio_files writes an output
\* as long as the longest track in which every sample is the sum of the
\* tracks' samples at that position (0 for a track that has ended) clipped
\* to [-32768, 32767], whatever the order of the list.
C21_MixIsClippedSum ==
    (mixPc = "returned" /\ mix_tracks # <<>>) =>
        /\ mix_out.exists
        /\ Len(mix_out.audio) = LongestLen(mix_tracks)
        /\ \A k \in 1..Len(mix_out.audio) :
              mix_out.audio[k] = Saturate(SumAt(mix_tracks, k))

\* ------------------------- the entry checks of the pipeline's entry points
BatchCalls == {"preprocess_multi_files", "process_multi_files"}

\* what loading a file that does not exist raises inside librosa.load: the
\* kind depends on the decoding backend that reports it
LoadErrors == {"FileNotFoundError", "LibsndfileError"}

InitInput ==
    /\ AlgIdle
    /\ PreIdle
    /\ ShiftIdle
    /\ SecondIdle
    /\ MixIdle
    /\ ToolIdle
    /\ \/ /\ in_call = "preprocess_multi_files"
          /\ src_exists \in BOOLEAN
          /\ ref_state \in {"gmt", "no_gmt", "present", "missing"}
          /\ n_tracks \in 0..MaxTracks
          /\ out_dir \in {"absent", "old"}
          /\ workspace \in {"absent", "old"}
          /\ audio_exists = FALSE
       \/ /\ in_call = "process_multi_files"
          /\ src_exists \in BOOLEAN
          /\ ref_state \in {"gmt", "no_gmt", "present", "missing"}
          /\ n_tracks \in 0..MaxTracks
          /\ out_dir \in {"absent", "old"}
          /\ workspace = "absent"
          /\ audio_exists = FALSE
       \/ /\ in_call = "from_audio"
          /\ audio_exists \in BOOLEAN
          /\ src_exists = FALSE
          /\ ref_state = "gmt"
          /\ n_tracks = 0
          /\ out_dir = "absent"
          /\ workspace = "absent"
    /\ aligned = 0
    /\ inPc = "check"
    /\ in_error = "none"

\* `not os.path.exists(directory)`
SourceDirMissing == ~src_exists

\* the first statement of both batch functions
CheckSourceDir ==
    /\ inPc = "check"
    /\ in_call \in BatchCalls
    /\ IF SourceDirMissing
       THEN /\ in_error' = "FileNotFoundError"
            /\ inPc' = "raised"
       ELSE /\ inPc' = "wipe_output"
            /\ UNCHANGED in_error
    /\ UNCHANGED <<in_call, src_exists, ref_state, n_tracks, audio_exists,
                   out_dir, workspace, aligned>>
    /\ UNCHANGED <<algVars, preVars, shiftVars, secondVars, inRest>>

\* shutil.rmtree(output_dir); os.makedirs(output_dir)
WipeOutputDir ==
    /\ inPc = "wipe_output"
    /\ out_dir' = "fresh"
    /\ inPc' = IF in_call = "preprocess_multi_files" THEN "workspace" ELSE "list"
    /\ UNCHANGED <<in_call, src_exists, ref_state, n_tracks, audio_exists,
                   workspace, aligned, in_error>>
    /\ UNCHANGED <<algVars, preVars, shiftVars, secondVars, inRest>>

\* preprocess_multi_files: shutil.rmtree(workspace); os.makedirs(workspace)
RecreateWorkspace ==
    /\ inPc = "workspace"
    /\ workspace' = "fresh"
    /\ inPc' = "list"
    /\ UNCHANGED <<in_call, src_exists, ref_state, n_tracks, audio_exists,
                   out_dir, aligned, in_error>>
    /\ UNCHANGED <<algVars, preVars, shiftVars, secondVars, inRest>>

\* the reference is itself a .wav file of the directory
ReferenceListed == ref_state = "gmt"

\* glob the .wav files, select the reference, keep the speaker files
ListAudioFiles ==
    /\ inPc = "list"
    /\ IF (n_tracks = 0 /\ ~ReferenceListed)
          \/ ref_state = "no_gmt"
          \/ n_tracks = 0
       THEN /\ in_error' = "ValueError"
            /\ inPc' = "raised"
       ELSE /\ inPc' = "tracks"
            /\ UNCHANGED in_error
    /\ UNCHANGED <<in_call, src_exists, ref_state, n_tracks, audio_exists,
                   out_dir, workspace, aligned>>
    /\ UNCHANGED <<algVars, preVars, shiftVars, secondVars, inRest>>

\* align_speaker_to_reference of the next speaker file, then its detection:
\* librosa.load(reference_path) comes first
AlignTrack ==
    /\ inPc = "tracks"
    /\ aligned < n_tracks
    /\ IF ref_state = "missing"
       THEN /\ in_error' \in LoadErrors
            /\ inPc' = "raised"
            /\ UNCHANGED aligned
       ELSE /\ aligned' = aligned + 1
            /\ UNCHANGED <<in_error, inPc>>
    /\ UNCHANGED <<in_call, src_exists, ref_state, n_tracks, audio_exists,
                   out_dir, workspace>>
    /\ UNCHANGED <<algVars, preVars, shiftVars, secondVars, inRest>>

\* the rest of the batch; preprocess_multi_files removes its workspace
FinishBatch ==
    /\ inPc = "tracks"
    /\ aligned = n_tracks
    /\ workspace' = IF in_call = "preprocess_multi_files" THEN "absent" ELSE workspace
    /\ inPc' = "returned"
    /\ UNCHANGED <<in_call, src_exists, ref_state, n_tracks, audio_exists,
                   out_dir, aligned, in_error>>
    /\ UNCHANGED <<algVars, preVars, shiftVars, secondVars, inRest>>

\* from_audio: `if not audio_path.is_file(): raise FileNotFoundError`
FromAudioCheck ==
    /\ inPc = "check"
    /\ in_call = "from_audio"
    /\ IF ~audio_exists
       THEN /\ in_error' = "FileNotFoundError"
            /\ inPc' = "raised"
       ELSE /\ inPc' = "scan"
            /\ UNCHANGED in_error
    /\ UNCHANGED <<in_call, src_exists, ref_state, n_tracks, audio_exists,
                   out_dir, workspace, aligned>>
    /\ UNCHANGED <<algVars, preVars, shiftVars, secondVars, inRest>>

\* from_audio: load the audio and scan it
FromAudioScan ==
    /\ inPc = "scan"
    /\ aligned' = aligned + 1
    /\ inPc' = "returned"
    /\ UNCHANGED <<in_call, src_exists, ref_state, n_tracks, audio_exists,
                   out_dir, workspace, in_error>>
    /\ UNCHANGED <<algVars, preVars, shiftVars, secondVars, inRest>>

NextInput ==
    \/ CheckSourceDir
    \/ WipeOutputDir
    \/ RecreateWorkspace
    \/ ListAudioFiles
    \/ AlignTrack
    \/ FinishBatch
    \/ FromAudioCheck
    \/ FromAudioScan

SpecInput == InitInput /\ [][NextInput]_vars

\* an input file or directory of the call is missing
MissingInput ==
    \/ in_call \in BatchCalls /\ (~src_exists \/ ref_state = "missing")
    \/ in_call = "from_audio" /\ ~audio_exists

\* nothing was changed: the output directory was not wiped or created, the
\* workspace was not created, no track was aligned or scanned
NothingChanged ==
    /\ out_dir # "fresh"
    /\ workspace # "fresh"
    /\ aligned = 0

\* C22: when an input file or directory is missing (the source directory,
\* the reference audio file, or a track's audio file) the call raises a
\* not-found error before any state is changed, and it does not return.
C22_NotFoundBeforeAnyChange ==
    MissingInput =>
        /\ NothingChanged
        /\ inPc # "returned"
        /\ inPc = "raised" => in_error = "FileNotFoundError"

\* --------------------------------------- the wrappers of the external tools
RunStates == {"ok", "nonzero", "missing"}

\* subprocess.run(command, check=True) inside
\* `try: ... except subprocess.CalledProcessError as e: raise RuntimeError`:
\* a non-zero exit raises CalledProcessError, which is wrapped; an
\* executable that cannot be found raises FileNotFoundError, which is not
RunOutcome(run) ==
    IF run = "missing" THEN "FileNotFoundError"
    ELSE IF run = "nonzero" THEN "RuntimeError"
    ELSE "none"

\* ensure_sampling_rate: the input check, then the ffmpeg run
EnsureOutcome ==
    IF ~input_exists THEN "FileNotFoundError" ELSE RunOutcome(ffmpeg)

\* the file at ensure_sampling_rate's output_path afterwards
EnsureOutputExists ==
    \/ EnsureOutcome = "none"
    \/ input_exists /\ ffmpeg = "nonzero" /\ leaves_output

InitTool ==
    /\ AlgIdle
    /\ PreIdle
    /\ ShiftIdle
    /\ SecondIdle
    /\ MixIdle
    /\ InIdle
    /\ \/ /\ tool_call = "ensure_sampling_rate"
          /\ tool_bin = "ok"
          /\ model_exists = FALSE
       \/ /\ tool_call = "deep_filtering"
          /\ tool_bin \in RunStates
          /\ model_exists = FALSE
       \/ /\ tool_call = "transcribe"
          /\ tool_bin \in RunStates
          /\ model_exists \in BOOLEAN
    /\ input_exists \in BOOLEAN
    /\ ffmpeg \in RunStates
    /\ leaves_output \in BOOLEAN
    /\ tmp_exists = FALSE
    /\ out_written = FALSE
    /\ toolPc = "call"
    /\ tool_error = "none"

\* ensure_sampling_rate(input_path, output_path, target_rate)
EnsureSamplingRate ==
    /\ toolPc = "call"
    /\ tool_call = "ensure_sampling_rate"
    /\ tool_error' = EnsureOutcome
    /\ out_written' = (EnsureOutcome = "none")
    /\ toolPc' = "done"
    /\ UNCHANGED <<tool_call, input_exists, ffmpeg, tool_bin, model_exists,
                   leaves_output, tmp_exists>>
    /\ UNCHANGED <<algVars, preVars, shiftVars, secondVars, toolRest>>

\* transcribe: `if not whisper_model.exists(): raise FileNotFoundError`
CheckModel ==
    /\ toolPc = "call"
    /\ tool_call = "transcribe"
    /\ IF ~model_exists
       THEN /\ tool_error' = "FileNotFoundError"
            /\ toolPc' = "done"
       ELSE /\ toolPc' = "convert"
            /\ UNCHANGED tool_error
    /\ UNCHANGED <<tool_call, input_exists, ffmpeg, tool_bin, model_exists,
                   leaves_output, tmp_exists, out_written>>
    /\ UNCHANGED <<algVars, preVars, shiftVars, secondVars, toolRest>>

\* deep_filtering / transcribe: ensure_sampling_rate(input_path, tmp_file_path),
\* called before the try statement whose finally removes the temporary file
ConvertToTmp ==
    /\ \/ toolPc = "call" /\ tool_call = "deep_filtering"
       \/ toolPc = "convert"
    /\ tmp_exists' = EnsureOutputExists
    /\ IF EnsureOutcome # "none"
       THEN /\ tool_error' = EnsureOutcome
            /\ toolPc' = "done"
       ELSE /\ toolPc' = "run"
            /\ UNCHANGED tool_error
    /\ UNCHANGED <<tool_call, input_exists, ffmpeg, tool_bin, model_exists,
                   leaves_output, out_written>>
    /\ UNCHANGED <<algVars, preVars, shiftVars, secondVars, toolRest>>

\* the run of deep-filter / whisper-cli inside try ... finally: the finally
\* clause removes the temporary file however the run ends
RunTool ==
    /\ toolPc = "run"
    /\ tool_error' = RunOutcome(tool_bin)
    /\ out_written' = (RunOutcome(tool_bin) = "none")
    /\ tmp_exists' = FALSE
    /\ toolPc' = "done"
    /\ UNCHANGED <<tool_call, input_exists, ffmpeg, tool_bin, model_exists,
                   leaves_output>>
    /\ UNCHANGED <<algVars, preVars, shiftVars, secondVars, toolRest>>

NextTool == EnsureSamplingRate \/ CheckModel \/ ConvertToTmp \/ RunTool

SpecTool == InitTool /\ [][NextTool]_vars

\* the call ended because an external tool exited non-zero or was missing
ToolFailed ==
    /\ toolPc = "done"
    /\ tool_error # "none"
    /\ input_exists
    /\ tool_call = "transcribe" => model_exists

\* C23: every failure of an external tool call, whether the process exits
\* non-zero or the binary is missing, reaches the caller as RuntimeError,
\* and the temporary audio file the wrapper created no longer exists.
C23_ToolFailureWrapped ==
    ToolFailed =>
        /\ tool_error = "RuntimeError"
        /\ ~tmp_exists

\* the subtitle files the input directory holds
SrtLeft == {f \in DOMAIN srt_dir : srt_dir[f].exists /\ EndsWith(f, <<".", "srt">>)}

====
